---------------------------- MODULE Spec2Model ----------------------------
(***************************************************************************)
(* Sales-order import pipeline of contaazul_mvp                            *)
(* (src/modules/vendas/service.py): parse_planilha, _montar_por_pedido,    *)
(* _resolver_itens_e_payload and processar_upload, with the remote        *)
(* accounting API seen through api_get / api_post.                         *)
(*                                                                         *)
(* Conventions                                                             *)
(*  - A text is a sequence of one-character strings, so that strip, upper, *)
(*    digit extraction and token normalisation are computed character by   *)
(*    character as the Python code does; Join turns a text into a string.  *)
(*  - Money and quantities are integers counted in thousandths (mills):    *)
(*    150.00 is 150000.  Python floats are modelled by exact decimals;     *)
(*    binary representation error is not modelled.                         *)
(*  - A Python dict (a JSON object, a DataFrame row) is a function whose   *)
(*    DOMAIN is the set of keys present.  None is the string Null where    *)
(*    the other values are strings.                                        *)
(***************************************************************************)
EXTENDS Integers, Sequences, FiniteSets, TLC

VARIABLES
    file,        \* the uploaded sheet: [header, rows]
    world,       \* the remote API: the response to every request
    token,       \* the stored token row and the clock
    pc,          \* position of processar_upload
    df,          \* the DataFrame returned by parse_planilha (a sequence of rows)
    pedidos,     \* df["pedido_id"].unique().tolist()
    npedido,     \* number of order ids already handled by _montar_por_pedido
    vendas,      \* results of _montar_por_pedido: the aggregates
    erros,       \* erros of _montar_por_pedido: {pedido_id, erro}
    nvenda,      \* number of aggregates already handled by the submit loop
    resultados,  \* resultados of processar_upload
    calls,       \* the remote requests issued, in order, by each turn of the submit loop
    retorno,     \* what processar_upload returned or raised
    session_state, \* st.session_state: company_id, tokens, __tokens_db_last_check
    tabela,      \* the row of the MySQL table tokens, or None
    provedor,    \* the token endpoint: the pairs it issued, the last one current
    relogio,     \* the clock, in seconds
    enviados,    \* the HTTP requests sent by api_get, with their headers
    saida        \* what the last token operation returned or raised

\* The state of the token store, untouched by processar_upload.
tvars == <<session_state, tabela, provedor, relogio, enviados, saida>>

\* The state of processar_upload, untouched by the token operations.
pvars == <<file, world, token, pc, df, pedidos, npedido, vendas, erros,
           nvenda, resultados, calls, retorno>>

vars == <<pvars, tvars>>

Null == "<None>"

-----------------------------------------------------------------------------
(* Python helpers                                                          *)

RECURSIVE Join(_)
Join(s) == IF s = <<>> THEN "" ELSE Head(s) \o Join(Tail(s))

RECURSIVE SeqSum(_)
SeqSum(s) == IF s = <<>> THEN 0 ELSE Head(s) + SeqSum(Tail(s))

Range(s) == {s[i] : i \in DOMAIN s}

LowerLetters ==
    <<"a","b","c","d","e","f","g","h","i","j","k","l","m",
      "n","o","p","q","r","s","t","u","v","w","x","y","z">>

UpperLetters ==
    <<"A","B","C","D","E","F","G","H","I","J","K","L","M",
      "N","O","P","Q","R","S","T","U","V","W","X","Y","Z">>

DigitChars == <<"0","1","2","3","4","5","6","7","8","9">>

\* Accented letters of the sheets: <<lower, upper, base lower, base upper>>.
AccentTable ==
    << <<"á","Á","a","A">>, <<"ã","Ã","a","A">>, <<"ç","Ç","c","C">>,
       <<"é","É","e","E">>, <<"ê","Ê","e","E">>, <<"í","Í","i","I">>, <<"ó","Ó","o","O">>,
       <<"õ","Õ","o","O">>, <<"ú","Ú","u","U">> >>

WhiteSpace == {" ", "\t"}

IndexOf(c, s) == IF \E i \in DOMAIN s : s[i] = c
                 THEN CHOOSE i \in DOMAIN s : s[i] = c
                 ELSE 0

IsDigit(c) == IndexOf(c, DigitChars) # 0

DigitValue(c) == IndexOf(c, DigitChars) - 1

\* str.upper(), one character
UpperChar(c) ==
    IF IndexOf(c, LowerLetters) # 0 THEN UpperLetters[IndexOf(c, LowerLetters)]
    ELSE IF \E i \in DOMAIN AccentTable : AccentTable[i][1] = c
         THEN AccentTable[CHOOSE i \in DOMAIN AccentTable : AccentTable[i][1] = c][2]
         ELSE c

\* str.lower(), one character
LowerChar(c) ==
    IF IndexOf(c, UpperLetters) # 0 THEN LowerLetters[IndexOf(c, UpperLetters)]
    ELSE IF \E i \in DOMAIN AccentTable : AccentTable[i][2] = c
         THEN AccentTable[CHOOSE i \in DOMAIN AccentTable : AccentTable[i][2] = c][1]
         ELSE c

\* unicodedata.normalize("NFKD", c) without the combining marks, one character
StripAccent(c) ==
    IF \E i \in DOMAIN AccentTable : AccentTable[i][1] = c
    THEN AccentTable[CHOOSE i \in DOMAIN AccentTable : AccentTable[i][1] = c][3]
    ELSE IF \E i \in DOMAIN AccentTable : AccentTable[i][2] = c
         THEN AccentTable[CHOOSE i \in DOMAIN AccentTable : AccentTable[i][2] = c][4]
         ELSE c

\* str.upper()
Upper(s) == [i \in DOMAIN s |-> UpperChar(s[i])]

\* str.lower()
Lower(s) == [i \in DOMAIN s |-> LowerChar(s[i])]

\* "".join(c for c in unicodedata.normalize("NFKD", s) if not unicodedata.combining(c))
StripAccents(s) == [i \in DOMAIN s |-> StripAccent(s[i])]

RECURSIVE LStrip(_)
LStrip(s) == IF s # <<>> /\ Head(s) \in WhiteSpace THEN LStrip(Tail(s)) ELSE s

RECURSIVE RStrip(_)
RStrip(s) == IF s # <<>> /\ s[Len(s)] \in WhiteSpace
             THEN RStrip(SubSeq(s, 1, Len(s) - 1))
             ELSE s

\* str.strip()
Strip(s) == RStrip(LStrip(s))

\* str.replace(a, b) for one-character a and b
ReplaceChar(s, a, b) == [i \in DOMAIN s |-> IF s[i] = a THEN b ELSE s[i]]

\* key.startswith(prefix)
StartsWith(s, prefix) ==
    Len(s) >= Len(prefix) /\ SubSeq(s, 1, Len(prefix)) = prefix

RECURSIVE FilterDigits(_)
FilterDigits(s) ==
    IF s = <<>> THEN <<>>
    ELSE IF IsDigit(Head(s)) THEN <<Head(s)>> \o FilterDigits(Tail(s))
         ELSE FilterDigits(Tail(s))

\* int(s) for a text of decimal digits
RECURSIVE IntOfDigits(_)
IntOfDigits(s) ==
    IF s = <<>> THEN 0
    ELSE 10 * IntOfDigits(SubSeq(s, 1, Len(s) - 1)) + DigitValue(s[Len(s)])

-----------------------------------------------------------------------------
(* Constants of modules/vendas/service.py                                  *)

SALES_PATH == "/v1/venda"

ALLOWED_PAYMENT_METHODS ==
    { "PIX", "BOLETO_BANCARIO", "CARTAO_CREDITO", "CARTAO_DEBITO",
      "DEPOSITO_BANCARIO", "TRANSFERENCIA_BANCARIA", "DINHEIRO",
      "CARTEIRA_DIGITAL", "CREDITO_LOJA", "CHEQUE" }

PAYMENT_ALIASES ==
    [ PIX |-> "PIX",
      PIX_ITAU |-> "PIX", PIX_BRADESCO |-> "PIX", PIX_BB |-> "PIX",
      PIX_CAIXA |-> "PIX", QRCODE |-> "PIX", CHAVE_PIX |-> "PIX",
      BOLETO |-> "BOLETO_BANCARIO",
      BOLETO_BB |-> "BOLETO_BANCARIO", BOLETO_CAIXA |-> "BOLETO_BANCARIO",
      BOLETO_BRADESCO |-> "BOLETO_BANCARIO",
      CARTAO_CREDITO |-> "CARTAO_CREDITO",
      CREDITO |-> "CARTAO_CREDITO",
      CARTAO_DEBITO |-> "CARTAO_DEBITO",
      DEBITO |-> "CARTAO_DEBITO",
      TRANSFERENCIA |-> "TRANSFERENCIA_BANCARIA",
      TED |-> "TRANSFERENCIA_BANCARIA", DOC |-> "TRANSFERENCIA_BANCARIA",
      DEPOSITO |-> "DEPOSITO_BANCARIO",
      DINHEIRO |-> "DINHEIRO",
      WALLET |-> "CARTEIRA_DIGITAL" ]

\* A raised exception and a returned value, as the result of a function call.
Raise(kind, arg) == [ok |-> FALSE, kind |-> kind, arg |-> arg]

Return(v) == [ok |-> TRUE, val |-> v]

\* Variants of the definitions below, each with one fault; the properties at
\* the end of the module are checked to tell each variant from the
\* definition it is a variant of.

\* NormalizeToken that keeps the diacritics.
NormalizeTokenSemAcentos(s) ==
    ReplaceChar(ReplaceChar(Upper(Strip(s)), "-", "_"), " ", "_")

\* _normalize_token(s): strip and upper, drop the diacritics, "-" and " " to "_"
NormalizeToken(s) ==
    ReplaceChar(ReplaceChar(StripAccents(Upper(Strip(s))), "-", "_"), " ", "_")

\* NormalizePaymentMethod that returns the token it cannot map.
NormalizePaymentMethodSemErro(raw) ==
    LET key == Join(NormalizeToken(raw)) IN
    IF key \in ALLOWED_PAYMENT_METHODS THEN Return(key)
    ELSE IF key \in DOMAIN PAYMENT_ALIASES THEN Return(PAYMENT_ALIASES[key])
    ELSE IF StartsWith(NormalizeToken(raw), <<"P","I","X">>) THEN Return("PIX")
    ELSE IF StartsWith(NormalizeToken(raw), <<"B","O","L","E","T","O">>)
         THEN Return("BOLETO_BANCARIO")
    ELSE Return(key)

\* _normalize_payment_method(raw): the canonical method, or ValueError naming raw
NormalizePaymentMethod(raw) ==
    LET key == Join(NormalizeToken(raw)) IN
    IF key \in ALLOWED_PAYMENT_METHODS THEN Return(key)
    ELSE IF key \in DOMAIN PAYMENT_ALIASES THEN Return(PAYMENT_ALIASES[key])
    ELSE IF StartsWith(NormalizeToken(raw), <<"P","I","X">>) THEN Return("PIX")
    ELSE IF StartsWith(NormalizeToken(raw), <<"B","O","L","E","T","O">>)
         THEN Return("BOLETO_BANCARIO")
    ELSE Raise("Forma de pagamento invalida", Join(raw))

\* The two defensive limits.  The source sets MAX_ROWS = 2_000 and
\* MAX_ORDERS = 500; the sheets here are small, and so are the limits, so that
\* sheets below, at and above each limit exist.
MAX_ROWS == 3

MAX_ORDERS == 2

-----------------------------------------------------------------------------
(* Cells of a sheet                                                        *)

\* An empty cell: pandas reads it as NaN.
Blank == [k |-> "blank"]

\* A text cell.
Txt(s) == [k |-> "text", s |-> s]

\* A numeric cell, in mills.
Num(v) == [k |-> "num", v |-> v]

\* A cell pandas.to_datetime parses, as the number of its day.
Date(d) == [k |-> "date", d |-> d]

\* The string strftime("%Y-%m-%d") writes for day d.
Iso(d) == [k |-> "iso", d |-> d]

NanText == <<"n","a","n">>

\* str(v) of a cell value; the text of a number is not modelled (no column of
\* the sheets mixes numbers into a text field).
PyStr(v) ==
    IF v.k = "blank" THEN Txt(NanText)
    ELSE v

\* float(s): an optional sign, digits with at most one ".", at most three
\* decimals.  Anything else raises ValueError (exponents, inf and nan are
\* not in the alphabet of the sheets).
FloatBody(s) == IF s # <<>> /\ s[1] \in {"+", "-"} THEN Tail(s) ELSE s

IsFloatText(s) ==
    LET b == FloatBody(s) IN
    /\ \A i \in DOMAIN b : IsDigit(b[i]) \/ b[i] = "."
    /\ \E i \in DOMAIN b : IsDigit(b[i])
    /\ Cardinality({i \in DOMAIN b : b[i] = "."}) <= 1

FloatOfText(s) ==
    LET b    == FloatBody(s)
        dot  == IndexOf(".", b)
        int  == IF dot = 0 THEN b ELSE SubSeq(b, 1, dot - 1)
        frac == IF dot = 0 THEN <<>> ELSE SubSeq(b, dot + 1, Len(b))
        fr3  == SubSeq(frac \o <<"0","0","0">>, 1, 3)
        abs  == 1000 * IntOfDigits(int) + IntOfDigits(fr3)
    IN  IF s # <<>> /\ s[1] = "-" THEN 0 - abs ELSE abs

\* VendaService._to_num(val)
ToNum(val) ==
    IF val.k = "blank" \/ (val.k = "text" /\ val.s = <<>>) THEN Return(0)
    ELSE IF val.k = "num" THEN Return(val.v)
    ELSE IF val.k = "text" /\ IsFloatText(ReplaceChar(Strip(val.s), ",", "."))
         THEN Return(FloatOfText(ReplaceChar(Strip(val.s), ",", ".")))
    ELSE Raise("ValueError: could not convert string to float", val)

\* VendaService._only_digits(s)
OnlyDigits(v) == Txt(FilterDigits(PyStr(v).s))

\* pd.to_datetime(col, errors="coerce").dt.strftime("%Y-%m-%d"), one cell:
\* an unparseable cell becomes NaT and strftime leaves NaN.
ToIsoDate(v) == IF v.k = "date" THEN Iso(v.d) ELSE Blank

\* datetime.strptime(s, "%Y-%m-%d") succeeds
StrptimeOk(v) == v.k = "iso"

\* round(x, 2) of an amount in mills: to the nearest cent, ties to the even
\* cent (exact for the ties a float holds exactly, such as 0.125; the sheets
\* hold no other tie)
Round2(x) ==
    LET q == x \div 10
        r == x % 10
    IN  IF r < 5 THEN 10 * q
        ELSE IF r > 5 THEN 10 * (q + 1)
        ELSE IF q % 2 = 0 THEN 10 * q ELSE 10 * (q + 1)

-----------------------------------------------------------------------------
(* Column names                                                            *)

IsAlnumLower(c) == IndexOf(c, LowerLetters) # 0 \/ IsDigit(c)

\* re.sub(r"[^a-z0-9]+", "_", s)
RECURSIVE SubNonAlnum(_)
SubNonAlnum(s) ==
    IF s = <<>> THEN <<>>
    ELSE IF IsAlnumLower(Head(s)) THEN <<Head(s)>> \o SubNonAlnum(Tail(s))
    ELSE IF Len(s) >= 2 /\ ~IsAlnumLower(s[2]) THEN SubNonAlnum(Tail(s))
    ELSE <<"_">> \o SubNonAlnum(Tail(s))

RECURSIVE StripUnderscores(_)
StripUnderscores(s) ==
    IF s # <<>> /\ Head(s) = "_" THEN StripUnderscores(Tail(s))
    ELSE IF s # <<>> /\ s[Len(s)] = "_"
         THEN StripUnderscores(SubSeq(s, 1, Len(s) - 1))
         ELSE s

\* _norm_colname without the final strip("_").
NormColnameSemStrip(name) ==
    Join(SubNonAlnum(Strip(Lower(StripAccents(name)))))

\* _norm_colname(name)
NormColname(name) ==
    Join(StripUnderscores(SubNonAlnum(Strip(Lower(StripAccents(name))))))

PTBR_TO_INTERNAL ==
    [ numero |-> "pedido_id",
      data_da_venda |-> "sale_date",
      situacao |-> "status",
      tipo_do_cliente |-> "customer_tipo",
      nome_do_cliente |-> "customer_nome",
      documento_do_cliente |-> "customer_documento",
      observacoes |-> "observacao",
      custo_de_frete |-> "shipping_cost",
      tipo_do_item |-> "item_tipo",
      codigo_do_item |-> "item_codigo",
      quantidade |-> "item_quantidade",
      valor_unitario |-> "item_unit_price",
      metodo_de_pagamento |-> "payment_method",
      valor_da_parcela |-> "payment_amount",
      vencimento_da_parcela |-> "payment_due_date",
      conta_financeira_id |-> "id_conta_financeira" ]

IDENTITY_INTERNAL ==
    [ pedido_id |-> "pedido_id",
      sale_date |-> "sale_date",
      status |-> "status",
      customer_tipo |-> "customer_tipo",
      customer_nome |-> "customer_nome",
      customer_documento |-> "customer_documento",
      observacao |-> "observacao",
      shipping_cost |-> "shipping_cost",
      item_tipo |-> "item_tipo",
      item_codigo |-> "item_codigo",
      item_quantidade |-> "item_quantidade",
      item_unit_price |-> "item_unit_price",
      payment_method |-> "payment_method",
      payment_amount |-> "payment_amount",
      payment_due_date |-> "payment_due_date",
      id_conta_financeira |-> "id_conta_financeira",
      total_declarado |-> "total_declarado" ]

\* _rename_columns_ptbr(df), one column
RenameColumn(c) ==
    LET key == NormColname(c) IN
    IF key \in DOMAIN PTBR_TO_INTERNAL THEN PTBR_TO_INTERNAL[key]
    ELSE IF key \in DOMAIN IDENTITY_INTERNAL THEN IDENTITY_INTERNAL[key]
    ELSE key

\* _rename_columns_ptbr(df): the columns of the renamed frame, in order
RenameColumns(header) == [i \in DOMAIN header |-> RenameColumn(header[i])]

\* obrig of parse_planilha
Obrigatorias ==
    << "pedido_id", "sale_date", "customer_tipo", "customer_nome",
       "customer_documento", "item_tipo", "item_codigo", "item_quantidade",
       "item_unit_price", "payment_method", "payment_amount",
       "payment_due_date" >>

NumericColumns ==
    {"item_quantidade", "item_unit_price", "payment_amount", "shipping_cost",
     "total_declarado"}

DateColumns == {"sale_date", "payment_due_date"}

\* The row of the renamed frame as a dict: column name -> cell.
RowDict(cols, row) ==
    [c \in Range(cols) |-> row[CHOOSE i \in DOMAIN cols : cols[i] = c]]

\* One cell after the column conversions of parse_planilha (lines 354-363).
ConvertCell(col, v) ==
    IF col = "pedido_id" THEN Txt(Strip(PyStr(v).s))
    ELSE IF col \in NumericColumns THEN Num(ToNum(v).val)
    ELSE IF col \in DateColumns THEN ToIsoDate(v)
    ELSE IF col = "customer_documento" THEN OnlyDigits(v)
    ELSE v

\* The defaults of the optional columns (lines 365-370).
DefaultColumns ==
    [status |-> Txt(<<"E","M","_","A","B","E","R","T","O">>),
     shipping_cost |-> Num(0),
     observacao |-> Txt(<<>>)]

ConvertRow(r) ==
    [c \in DOMAIN r \cup DOMAIN DefaultColumns |->
        IF c \in DOMAIN r THEN ConvertCell(c, r[c]) ELSE DefaultColumns[c]]

\* ParsePlanilha that refuses a sheet of MAX_ROWS rows.
ParsePlanilhaLimiteEstrito(f) ==
    LET cols     == RenameColumns(f.header)
        faltando == SelectSeq(Obrigatorias, LAMBDA c : c \notin Range(cols))
        rows     == [i \in DOMAIN f.rows |-> RowDict(cols, f.rows[i])]
        bad      == {<<i, c>> \in (DOMAIN rows) \X NumericColumns :
                        c \in Range(cols) /\ ~ToNum(rows[i][c]).ok}
    IN  IF faltando # <<>>
          THEN Raise("Colunas obrigatorias ausentes", faltando)
        ELSE IF Len(f.rows) >= MAX_ROWS
          THEN Raise("Limite de linhas excedido", MAX_ROWS)
        ELSE IF bad # {}
          THEN Raise("ValueError: could not convert string to float", Null)
        ELSE Return([i \in DOMAIN rows |-> ConvertRow(rows[i])])

\* VendaService.parse_planilha(file): the frame, or the ValueError raised
ParsePlanilha(f) ==
    LET cols     == RenameColumns(f.header)
        faltando == SelectSeq(Obrigatorias, LAMBDA c : c \notin Range(cols))
        rows     == [i \in DOMAIN f.rows |-> RowDict(cols, f.rows[i])]
        bad      == {<<i, c>> \in (DOMAIN rows) \X NumericColumns :
                        c \in Range(cols) /\ ~ToNum(rows[i][c]).ok}
    IN  IF faltando # <<>>
          THEN Raise("Colunas obrigatorias ausentes", faltando)
        ELSE IF Len(f.rows) > MAX_ROWS
          THEN Raise("Limite de linhas excedido", MAX_ROWS)
        ELSE IF bad # {}
          THEN Raise("ValueError: could not convert string to float", Null)
        ELSE Return([i \in DOMAIN rows |-> ConvertRow(rows[i])])

-----------------------------------------------------------------------------
(* Grouping and validation: VendaService._montar_por_pedido                *)

\* Python None where the other values are cells.
None == [k |-> "none"]

\* bool(v) of a cell value: NaN is truthy, "" and 0.0 are falsy.
Truthy(v) ==
    IF v.k = "text" THEN v.s # <<>>
    ELSE IF v.k = "num" THEN v.v # 0
    ELSE v.k # "none"

\* d.get(key, default)
Get(d, key, default) == IF key \in DOMAIN d THEN d[key] ELSE default

\* df["pedido_id"].unique().tolist(): the distinct ids, by first appearance
RECURSIVE Unique(_)
Unique(ids) ==
    IF ids = <<>> THEN <<>>
    ELSE LET rest == Unique(SubSeq(ids, 1, Len(ids) - 1))
             last == ids[Len(ids)]
         IN  IF last \in Range(rest) THEN rest ELSE Append(rest, last)

\* The rows of the order pid that follow its first row without a row of
\* another order in between.
BlocoContiguo(frame, pid) ==
    LET primeira == CHOOSE i \in DOMAIN frame :
                        /\ frame[i]["pedido_id"].s = pid
                        /\ \A j \in 1..(i - 1) : frame[j]["pedido_id"].s # pid
        ultima   == CHOOSE i \in primeira..Len(frame) :
                        /\ \A j \in primeira..i : frame[j]["pedido_id"].s = pid
                        /\ i = Len(frame) \/ frame[i + 1]["pedido_id"].s # pid
    IN  SubSeq(frame, primeira, ultima)

\* df[df["pedido_id"] == pid]
Bloco(frame, pid) == SelectSeq(frame, LAMBDA r : r["pedido_id"].s = pid)

\* CabecalhoVenda(...) of lines 504-515, from the first row of the block
Cabecalho(pid, r0) ==
    [ pedido_id |-> pid,
      sale_date |-> PyStr(r0["sale_date"]),
      status |->
        LET v == Get(r0, "status", DefaultColumns.status) IN
        PyStr(IF Truthy(v) THEN v ELSE DefaultColumns.status).s,
      cliente_tipo |-> Join(Strip(Upper(PyStr(r0["customer_tipo"]).s))),
      cliente_nome |-> Join(Strip(PyStr(r0["customer_nome"]).s)),
      cliente_documento |-> Join(Strip(PyStr(r0["customer_documento"]).s)),
      shipping_cost |->
        LET v == Get(r0, "shipping_cost", Num(0)) IN
        IF Truthy(v) THEN v.v ELSE 0,
      total_declarado |->
        IF "total_declarado" \in DOMAIN r0
           /\ r0["total_declarado"] \notin {Txt(<<>>), None}
        THEN r0["total_declarado"]
        ELSE None,
      observacao |->
        LET v == Get(r0, "observacao", Txt(<<>>)) IN
        Join(PyStr(IF Truthy(v) THEN v ELSE Txt(<<>>)).s),
      conta_financeira_id |->
        LET t == Join(Strip(PyStr(Get(r0, "id_conta_financeira", Txt(<<>>))).s))
        IN  IF t = "" THEN Null ELSE t ]

\* The checks of the header (lines 517-523): the first that fails, or Null.
ErroCabecalho(h) ==
    IF h.cliente_tipo \notin {"FISICA", "JURIDICA", "ESTRANGEIRA"}
      THEN Raise("customer_tipo invalido", h.cliente_tipo)
    ELSE IF h.cliente_tipo = "FISICA" /\ Len(h.cliente_documento) # 11
      THEN Raise("CPF invalido: use 11 digitos", h.cliente_documento)
    ELSE IF h.cliente_tipo = "JURIDICA" /\ Len(h.cliente_documento) # 14
      THEN Raise("CNPJ invalido: use 14 digitos", h.cliente_documento)
    ELSE IF ~StrptimeOk(h.sale_date)
      THEN Raise("ValueError: time data does not match format", "sale_date")
    ELSE Return(Null)

\* VendaItem(...) of lines 528-533
Item(row) ==
    [ tipo |-> Join(Strip(Upper(PyStr(row["item_tipo"]).s))),
      codigo |-> Join(Strip(PyStr(row["item_codigo"]).s)),
      quantidade |-> row["item_quantidade"].v,
      unit_price |-> row["item_unit_price"].v ]

\* ErroItem without the check of item_tipo.
ErroItemSemTipo(it) ==
    IF it.quantidade <= 0
      THEN Raise("item_quantidade deve ser > 0", Null)
    ELSE IF it.unit_price < 0
      THEN Raise("item_unit_price deve ser >= 0", Null)
    ELSE Return(Null)

\* The checks of one item (lines 534-539)
ErroItem(it) ==
    IF it.tipo \notin {"PRODUTO", "SERVICO"}
      THEN Raise("item_tipo invalido", it.tipo)
    ELSE IF it.quantidade <= 0
      THEN Raise("item_quantidade deve ser > 0", Null)
    ELSE IF it.unit_price < 0
      THEN Raise("item_unit_price deve ser >= 0", Null)
    ELSE Return(Null)

\* ParcelaPagamento(...) of lines 546-550
Parcela(row) ==
    [ metodo |-> Strip(Upper(PyStr(row["payment_method"]).s)),
      valor |-> row["payment_amount"].v,
      vencimento |-> PyStr(row["payment_due_date"]) ]

\* ErroParcela without the parse of the due date.
ErroParcelaSemData(pm) ==
    IF pm.valor <= 0
      THEN Raise("payment_amount deve ser > 0", Null)
    ELSE Return(Null)

\* The checks of one installment (lines 551-553)
ErroParcela(pm) ==
    IF pm.valor <= 0
      THEN Raise("payment_amount deve ser > 0", Null)
    ELSE IF ~StrptimeOk(pm.vencimento)
      THEN Raise("ValueError: time data does not match format", "payment_due_date")
    ELSE Return(Null)

\* The first raised exception of a sequence of results, or Return(Null).
FirstRaise(rs) ==
    IF \E i \in DOMAIN rs : ~rs[i].ok
    THEN rs[CHOOSE i \in DOMAIN rs :
                ~rs[i].ok /\ \A j \in 1..(i - 1) : rs[j].ok]
    ELSE Return(Null)

\* total_itens of lines 526-541: quantidade * unit_price, both in mills
TotalItens(itens) ==
    SeqSum([i \in DOMAIN itens |->
               (itens[i].quantidade * itens[i].unit_price) \div 1000])

\* soma_pag of lines 544-555
SomaPag(payments) == SeqSum([i \in DOMAIN payments |-> payments[i].valor])

\* total_calc of line 557
TotalCalc(h, itens) == Round2(TotalItens(itens) + h.shipping_cost)

\* ErroTotais without the check of the sum of the installments.
ErroTotaisSemSoma(h, itens, payments) ==
    IF h.total_declarado # None
       /\ Round2(h.total_declarado.v) # TotalCalc(h, itens)
      THEN Raise("total_declarado difere da soma",
                 [declarado |-> h.total_declarado.v, calc |-> TotalCalc(h, itens)])
    ELSE Return(Null)

\* ErroTotais without the check of the declared total.
ErroTotaisSemDeclarado(h, itens, payments) ==
    IF Round2(SomaPag(payments)) # TotalCalc(h, itens)
      THEN Raise("Soma dos pagamentos difere do total calculado",
                 [soma |-> Round2(SomaPag(payments)), calc |-> TotalCalc(h, itens)])
    ELSE Return(Null)

\* The checks of the totals (lines 559-568)
ErroTotais(h, itens, payments) ==
    IF h.total_declarado # None
       /\ Round2(h.total_declarado.v) # TotalCalc(h, itens)
      THEN Raise("total_declarado difere da soma",
                 [declarado |-> h.total_declarado.v, calc |-> TotalCalc(h, itens)])
    ELSE IF Round2(SomaPag(payments)) # TotalCalc(h, itens)
      THEN Raise("Soma dos pagamentos difere do total calculado",
                 [soma |-> Round2(SomaPag(payments)), calc |-> TotalCalc(h, itens)])
    ELSE Return(Null)

\* The body of the try of lines 503-570 for one pedido_id: the VendaMontada
\* appended to results, or the exception caught at line 572.
MontarUm(frame, pid) ==
    LET bloco    == Bloco(frame, pid)
        h        == Cabecalho(pid, bloco[1])
        itens    == [i \in DOMAIN bloco |-> Item(bloco[i])]
        payments == [i \in DOMAIN bloco |-> Parcela(bloco[i])]
        eItens   == FirstRaise([i \in DOMAIN bloco |-> ErroItem(itens[i])])
        ePag     == FirstRaise([i \in DOMAIN bloco |-> ErroParcela(payments[i])])
    IN  IF ~ErroCabecalho(h).ok THEN ErroCabecalho(h)
        ELSE IF ~eItens.ok THEN eItens
        ELSE IF ~ePag.ok THEN ePag
        ELSE IF ~ErroTotais(h, itens, payments).ok
             THEN ErroTotais(h, itens, payments)
        ELSE Return([header |-> h, itens |-> itens, payments |-> payments])

-----------------------------------------------------------------------------
(* The remote API: utils/ca_api.py api_get / api_post                      *)
(* world gives the answer of the service to every request.  A response is  *)
(* Exc (the request raised: no token, network failure, non-2xx status), a  *)
(* JSON object DictResp(d) or a JSON array ListResp(l).                    *)

Exc == [k |-> "exc"]

DictResp(d) == [k |-> "dict", v |-> d]

ListResp(l) == [k |-> "list", l |-> l]

\* The empty JSON object.
EmptyDict == [x \in {} |-> Null]

\* One request issued to the service.
Call(method, path, arg) == [method |-> method, path |-> path, arg |-> arg]

\* api_get(path, params={name: value}): the response of the service
ApiGet(path, name, value) ==
    LET table == world.get[path] IN
    IF <<name, value>> \in DOMAIN table THEN table[<<name, value>>]
    ELSE DictResp(EmptyDict)

\* api_post(path, json=payload): the response of the service, which depends
\* on the path and on key, the document or the order number of the payload
ApiPost(path, key) ==
    LET table == world.post[path] IN
    IF key \in DOMAIN table.by THEN table.by[key] ELSE table.default

\* a.get(k1) or a.get(k2) or ... for string values: the first truthy one
RECURSIVE FirstTruthy(_, _)
FirstTruthy(d, keys) ==
    IF keys = <<>> THEN Null
    ELSE IF Head(keys) \in DOMAIN d /\ d[Head(keys)] \notin {"", Null}
         THEN d[Head(keys)]
         ELSE FirstTruthy(d, Tail(keys))

\* a.get(k1) or a.get(k2) or ... for list values: the first non-empty one
RECURSIVE FirstList(_, _)
FirstList(d, keys) ==
    IF keys = <<>> THEN <<>>
    ELSE IF Head(keys) \in DOMAIN d /\ d[Head(keys)] # <<>>
         THEN d[Head(keys)]
         ELSE FirstList(d, Tail(keys))

\* str(v) of a JSON string or None
StrOf(v) == IF v = Null THEN "None" ELSE v

\* What a resolver did: the value it returned (or the exception it let
\* escape) and the requests it issued.  Where a result is used more than
\* once it is named by a bound variable: { e(x) : x \in {call} } is the
\* set of the one value e has for the result x of the call.
Done(res, cs) == [res |-> res, calls |-> cs]

\* VendaService._resolve_produto_id(codigo)
ResolveProdutoId(codigo) ==
    LET c1   == Call("GET", "/v1/produto", <<"codigo_sku", codigo>>)
        d1   == ApiGet("/v1/produto", "codigo_sku", codigo)
        its1 == IF d1.k = "dict" THEN FirstList(d1.v, <<"itens", "data", "items">>)
                ELSE <<>>
        pids == [i \in DOMAIN its1 |->
                   FirstTruthy(its1[i], <<"id", "identificador", "identificador_legado">>)]
        c2   == Call("GET", "/v1/products", <<"code", codigo>>)
        d2   == ApiGet("/v1/products", "code", codigo)
        its2 == IF d2.k = "dict" THEN FirstList(d2.v, <<"data">>) ELSE <<>>
    IN  IF \E i \in DOMAIN pids : pids[i] # Null
          THEN Done(pids[CHOOSE i \in DOMAIN pids :
                           pids[i] # Null /\ \A j \in 1..(i - 1) : pids[j] = Null],
                    <<c1>>)
        ELSE IF d2.k = "list" /\ d2.l # <<>>
          THEN Done(FirstTruthy(d2.l[1], <<"id">>), <<c1, c2>>)
        ELSE IF d2.k = "dict" /\ its2 # <<>>
          THEN Done(StrOf(Get(its2[1], "id", Null)), <<c1, c2>>)
        ELSE Done(Null, <<c1, c2>>)

\* VendaService._resolve_servico_id(codigo)
ResolveServicoId(codigo) ==
    LET c1   == Call("GET", "/v1/servicos", <<"codigo", codigo>>)
        d1   == ApiGet("/v1/servicos", "codigo", codigo)
        its1 == IF d1.k = "dict" THEN FirstList(d1.v, <<"itens", "data", "items">>)
                ELSE <<>>
    IN  IF d1.k = "dict" /\ its1 # <<>>
          THEN Done(FirstTruthy(its1[1], <<"id">>), <<c1>>)
        ELSE IF d1.k = "list" /\ d1.l # <<>>
          THEN Done(StrOf(Get(d1.l[1], "id", Null)), <<c1>>)
        ELSE Done(Null, <<c1>>)

\* a.get(k1) or a.get(k2) or ... for text values: the first non-empty one
RECURSIVE FirstText(_, _)
FirstText(d, keys) ==
    IF keys = <<>> THEN <<>>
    ELSE IF Head(keys) \in DOMAIN d /\ d[Head(keys)] # <<>>
         THEN d[Head(keys)]
         ELSE FirstText(d, Tail(keys))

\* (p.get("cpf") or p.get("cnpj") or p.get("documento") or "")
\*     .replace(".", "").replace("-", "").replace("/", "")
DocDe(p) ==
    Join(SelectSeq(FirstText(p, <<"cpf", "cnpj", "documento">>),
                   LAMBDA c : c \notin {".", "-", "/"}))

\* The first person of itens whose document is documento, or Null.
PrimeiroComDocumento(itens, documento) ==
    IF \E i \in DOMAIN itens : DocDe(itens[i]) = documento
    THEN CHOOSE i \in DOMAIN itens :
            /\ DocDe(itens[i]) = documento
            /\ \A j \in 1..(i - 1) : DocDe(itens[j]) # documento
    ELSE 0

\* One search of _buscar_pessoa_por_documento: the list the loop goes through.
PessoasDe(d, keys) ==
    IF d.k = "dict" THEN FirstList(d.v, keys)
    ELSE IF d.k = "list" THEN d.l
    ELSE <<>>

\* _buscar_pessoa_por_documento that gives up at the first search that
\* fails.
RECURSIVE BuscarPessoaSemFallback(_, _, _)
BuscarPessoaSemFallback(documento, params, cs) ==
    IF params = <<>> THEN Done(None, cs)
    ELSE LET name  == Head(params)
             d     == ApiGet("/v1/pessoas", name, documento)
             itens == PessoasDe(d, IF name = "documento"
                                   THEN <<"data", "items", "itens">>
                                   ELSE <<"data">>)
             cs2   == Append(cs, Call("GET", "/v1/pessoas", <<name, documento>>))
         IN  IF d.k = "exc" THEN Done(None, cs2)
             ELSE IF PrimeiroComDocumento(itens, documento) # 0
               THEN Done([k |-> "dict",
                          v |-> itens[PrimeiroComDocumento(itens, documento)]], cs2)
             ELSE BuscarPessoaSemFallback(documento, Tail(params), cs2)

\* VendaService._buscar_pessoa_por_documento(documento): the person found
\* (a dict) or None, trying the documento, cpf and cnpj parameters in turn.
RECURSIVE BuscarPessoa(_, _, _)
BuscarPessoa(documento, params, cs) ==
    IF params = <<>> THEN Done(None, cs)
    ELSE LET name  == Head(params)
             d     == ApiGet("/v1/pessoas", name, documento)
             itens == PessoasDe(d, IF name = "documento"
                                   THEN <<"data", "items", "itens">>
                                   ELSE <<"data">>)
             cs2   == Append(cs, Call("GET", "/v1/pessoas", <<name, documento>>))
         IN  IF PrimeiroComDocumento(itens, documento) # 0
               THEN Done([k |-> "dict",
                          v |-> itens[PrimeiroComDocumento(itens, documento)]], cs2)
             ELSE BuscarPessoa(documento, Tail(params), cs2)

BuscarPessoaPorDocumento(documento) ==
    BuscarPessoa(documento, <<"documento", "cpf", "cnpj">>, <<>>)

\* The payload of VendaService._criar_pessoa_minima(tipo, nome, documento)
PessoaMinima(nome, documento) ==
    IF Len(documento) = 11
    THEN [ perfis |-> <<[tipo_perfil |-> "CLIENTE"]>>, tipo_pessoa |-> "FISICA",
           nome |-> nome, cpf |-> documento ]
    ELSE [ perfis |-> <<[tipo_perfil |-> "CLIENTE"]>>, tipo_pessoa |-> "JURIDICA",
           nome |-> nome, cnpj |-> documento ]

\* _resolve_or_create_customer without the check of the identifier (lines
\* 483-486): str() of whatever the record carries is returned.
ResolveOrCreateCustomerSemChecagem(tipo, nome, documento) ==
    CHOOSE feito \in
      { LET post   == Call("POST", "/v1/pessoa", PessoaMinima(nome, documento))
            criada == ApiPost("/v1/pessoa", documento)
            cs     == IF busca.res = None THEN Append(busca.calls, post)
                      ELSE busca.calls
            pessoa == IF busca.res = None THEN criada ELSE busca.res
        IN  IF pessoa.k = "exc"
              THEN Done(Raise("HTTPError", "/v1/pessoa"), cs)
            ELSE Done(Return(StrOf(FirstTruthy(pessoa.v,
                        <<"id", "uuid", "identificador", "identificador_legado">>))),
                      cs) :
        busca \in {BuscarPessoaPorDocumento(documento)} } : TRUE

\* VendaService._resolve_or_create_customer(tipo, nome, documento): the id
\* of the customer, or the exception raised.
ResolveOrCreateCustomer(tipo, nome, documento) ==
    CHOOSE feito \in
      { LET post   == Call("POST", "/v1/pessoa", PessoaMinima(nome, documento))
            criada == ApiPost("/v1/pessoa", documento)
            cs     == IF busca.res = None THEN Append(busca.calls, post)
                      ELSE busca.calls
            pessoa == IF busca.res = None THEN criada ELSE busca.res
            id     == FirstTruthy(pessoa.v,
                          <<"id", "uuid", "identificador", "identificador_legado">>)
        IN  IF pessoa.k = "exc"
              THEN Done(Raise("HTTPError", "/v1/pessoa"), cs)
            ELSE IF id = Null
              THEN Done(Raise("Nao foi possivel obter o ID do cliente", documento), cs)
            ELSE Done(Return(id), cs) :
        busca \in {BuscarPessoaPorDocumento(documento)} } : TRUE

-----------------------------------------------------------------------------
(* Payload construction: VendaService._resolver_itens_e_payload            *)

\* str(n) for n >= 0
RECURSIVE TextOfNat(_)
TextOfNat(n) ==
    IF n < 10 THEN <<DigitChars[n + 1]>>
    ELSE Append(TextOfNat(n \div 10), DigitChars[(n % 10) + 1])

\* ", ".join(texts)
RECURSIVE JoinComma(_)
JoinComma(texts) ==
    IF texts = <<>> THEN ""
    ELSE IF Len(texts) = 1 THEN Join(texts[1])
    ELSE Join(texts[1]) \o ", " \o JoinComma(Tail(texts))

Max(a, b) == IF a >= b THEN a ELSE b

Abs(a) == IF a >= 0 THEN a ELSE 0 - a

\* The pairs of amounts one cent apart, among the amounts of the sheets below,
\* whose difference as IEEE doubles is below 0.01:
\*   200.01 - 200.0 = 150.01 - 150.0 = 0.009999999999990905, while
\*   100.01 - 100.0 = 0.010000000000005116.
CentavoAbaixo == { {200000, 200010}, {150000, 150010} }

\* abs(a - b) < 0.01 of line 751, for two amounts rounded to the cent: the
\* difference of two doubles one cent apart is never the double 0.01.
MenorQueCentavo(a, b) ==
    \/ Abs(a - b) < 10
    \/ Abs(a - b) = 10 /\ {a, b} \in CentavoAbaixo

\* VendaService._infer_opcao_condicao_pagamento(data_venda, parcelas)
InferOpcaoCondicaoPagamento(data_venda, parcelas) ==
    LET valores == [i \in DOMAIN parcelas |-> Round2(parcelas[i].valor)]
        nx      == Join(TextOfNat(Len(parcelas))) \o "x"
    IN  IF Len(parcelas) <= 1 THEN "À vista"
        ELSE IF \A i \in DOMAIN valores : MenorQueCentavo(valores[i], valores[1])
          THEN nx
        ELSE IF StrptimeOk(data_venda)
                /\ \A i \in DOMAIN parcelas : StrptimeOk(parcelas[i].data_vencimento)
          THEN JoinComma([i \in DOMAIN parcelas |->
                   TextOfNat(Max(0, parcelas[i].data_vencimento.d - data_venda.d))])
        ELSE nx

\* The loop of lines 581-595: the items of the payload, or the first item
\* that is not found; the requests issued up to there.
RECURSIVE ResolverItens(_, _, _)
ResolverItens(itens, feito, cs) ==
    IF itens = <<>> THEN Done(Return(feito), cs)
    ELSE LET it == Head(itens)
             r  == IF it.tipo = "PRODUTO" THEN ResolveProdutoId(it.codigo)
                   ELSE ResolveServicoId(it.codigo)
         IN  IF r.res \in {Null, ""}
               THEN Done(Raise(IF it.tipo = "PRODUTO"
                               THEN "Produto nao encontrado"
                               ELSE "Servico nao encontrado", it.codigo),
                         cs \o r.calls)
             ELSE ResolverItens(Tail(itens),
                                Append(feito, [id |-> r.res,
                                               quantidade |-> it.quantidade,
                                               valor |-> it.unit_price]),
                                cs \o r.calls)

\* SoDigitos that gives "0" for a pedido_id without digits.
SoDigitosOuZero(pedido_id) ==
    IF FilterDigits(pedido_id) = <<>> THEN <<"0">> ELSE FilterDigits(pedido_id)

\* so_digitos of line 658
SoDigitos(pedido_id) == FilterDigits(pedido_id)

\* MetodosNorm that looks at the method of the first installment only.
MetodosNormPrimeiro(payments) ==
    [i \in DOMAIN payments |-> NormalizePaymentMethod(payments[1].metodo)]

\* metodos_norm of lines 605-608
MetodosNorm(payments) ==
    [i \in DOMAIN payments |-> NormalizePaymentMethod(payments[i].metodo)]

\* a @@ b restricted to strings keys: the optional keys of a payload
Com(d, key, present, v) ==
    IF present THEN (key :> v) @@ d ELSE d

\* VendaService._resolver_itens_e_payload(venda): the payload, or the
\* exception raised, and the requests issued.  id_conta is the account id
\* of st.secrets (Null when not configured).
ResolverItensEPayload(venda) ==
    CHOOSE feito \in
      { LET h        == venda.header
            eMetodo  == FirstRaise(metodos)
            norm     == {metodos[i].val : i \in DOMAIN metodos}
            parcelas == [i \in DOMAIN venda.payments |->
                           [data_vencimento |-> venda.payments[i].vencimento,
                            valor |-> venda.payments[i].valor]]
            opcao    == InferOpcaoCondicaoPagamento(h.sale_date, parcelas)
            condicao == Com([tipo_pagamento |-> CHOOSE m \in norm : TRUE,
                             opcao_condicao_pagamento |-> opcao,
                             parcelas |-> parcelas],
                            "id_conta_financeira",
                            world.id_conta_financeira # Null,
                            world.id_conta_financeira)
            digitos  == SoDigitos(h.pedido_id)
            sit      == Join(Strip(Upper(h.status)))
            situacao == IF sit \in {"", "EM_ABERTO"} THEN "EM_ANDAMENTO" ELSE sit
            payload  ==
                Com(Com([id_cliente |-> rc.res.val,
                         numero |-> IntOfDigits(digitos),
                         data_venda |-> h.sale_date,
                         situacao |-> situacao,
                         itens |-> ri.res.val,
                         condicao_pagamento |-> condicao],
                        "composicao_de_valor", h.shipping_cost > 0,
                        [frete |-> h.shipping_cost]),
                    "observacoes", h.observacao # "", h.observacao)
        IN  IF ~ri.res.ok THEN ri
            ELSE IF ri.res.val = <<>>
              THEN Done(Raise("Nenhum item informado para a venda", Null), ri.calls)
            ELSE IF venda.payments = <<>>
              THEN Done(Raise("Informe ao menos uma parcela", Null), ri.calls)
            ELSE IF ~eMetodo.ok THEN Done(eMetodo, ri.calls)
            ELSE IF Cardinality(norm) # 1
              THEN Done(Raise("A venda contem multiplas formas de pagamento", Null),
                        ri.calls)
            ELSE IF \E i \in DOMAIN parcelas : parcelas[i].valor <= 0
              THEN Done(Raise("Valor de parcela deve ser > 0", Null), ri.calls)
            ELSE IF ~rc.res.ok THEN Done(rc.res, ri.calls \o rc.calls)
            ELSE IF digitos = <<>>
              THEN Done(Raise("numero (inteiro) e obrigatorio", Join(h.pedido_id)),
                        ri.calls \o rc.calls)
            ELSE Done(Return(payload), ri.calls \o rc.calls) :
        ri \in {ResolverItens(venda.itens, <<>>, <<>>)},
        metodos \in {MetodosNorm(venda.payments)},
        rc \in {ResolveOrCreateCustomer(venda.header.cliente_tipo,
                                        venda.header.cliente_nome,
                                        venda.header.cliente_documento)} } : TRUE

\* One turn of the loop that posts a refused sale a second time before it
\* records the failure.
EnviarVendaDeNovo(venda) ==
    CHOOSE feito \in
      { LET pid  == Join(venda.header.pedido_id)
            post == Call("POST", SALES_PATH, rp.res.val)
            resp == ApiPost(SALES_PATH, pid)
        IN  IF ~rp.res.ok
              THEN Done([pedido_id |-> pid, status |-> "erro", sale_id |-> Null,
                         mensagem |-> rp.res], rp.calls)
            ELSE IF resp.k = "exc"
              THEN Done([pedido_id |-> pid, status |-> "erro", sale_id |-> Null,
                         mensagem |-> Raise("HTTPError", SALES_PATH)],
                        Append(Append(rp.calls, post), post))
            ELSE Done([pedido_id |-> pid, status |-> "criada",
                       sale_id |-> FirstTruthy(resp.v,
                                      <<"id", "identificador", "sale_id">>),
                       mensagem |-> Return("Venda criada com sucesso")],
                      Append(rp.calls, post)) :
        rp \in {ResolverItensEPayload(venda)} } : TRUE

\* One turn of the loop of processar_upload (lines 702-723): the row
\* appended to resultados and the requests issued.
EnviarVenda(venda) ==
    CHOOSE feito \in
      { LET pid  == Join(venda.header.pedido_id)
            post == Call("POST", SALES_PATH, rp.res.val)
            resp == ApiPost(SALES_PATH, pid)
        IN  IF ~rp.res.ok
              THEN Done([pedido_id |-> pid, status |-> "erro", sale_id |-> Null,
                         mensagem |-> rp.res], rp.calls)
            ELSE IF resp.k = "exc"
              THEN Done([pedido_id |-> pid, status |-> "erro", sale_id |-> Null,
                         mensagem |-> Raise("HTTPError", SALES_PATH)],
                        Append(rp.calls, post))
            ELSE Done([pedido_id |-> pid, status |-> "criada",
                       sale_id |-> FirstTruthy(resp.v,
                                      <<"id", "identificador", "sale_id">>),
                       mensagem |-> Return("Venda criada com sucesso")],
                      Append(rp.calls, post)) :
        rp \in {ResolverItensEPayload(venda)} } : TRUE

-----------------------------------------------------------------------------
(* processar_upload, step by step                                          *)

\* utils/token_store.py has_valid_token(): a stored row that has not expired
HasValidToken == token.present /\ token.expires_at > token.now

\* Line 695-696: no valid token, no batch.
VerificarToken ==
    /\ pc = "token"
    /\ IF HasValidToken
       THEN pc' = "parse" /\ UNCHANGED retorno
       ELSE pc' = "raised"
            /\ retorno' = Raise("RuntimeError: Token de acesso invalido ou expirado", Null)
    /\ UNCHANGED <<tvars, file, world, token, df, pedidos, npedido, vendas, erros,
                   nvenda, resultados, calls>>

\* Line 698: df = cls.parse_planilha(file)
Parse ==
    /\ pc = "parse"
    /\ \E r \in {ParsePlanilha(file)} :
          IF r.ok
          THEN pc' = "montar" /\ df' = r.val /\ UNCHANGED retorno
          ELSE pc' = "raised" /\ retorno' = r /\ UNCHANGED df
    /\ UNCHANGED <<tvars, file, world, token, pedidos, npedido, vendas, erros,
                   nvenda, resultados, calls>>

\* Lines 496-498: the distinct order ids and their limit.
MontarInicio ==
    /\ pc = "montar"
    /\ LET ids == Unique([i \in DOMAIN df |-> df[i]["pedido_id"].s]) IN
       IF Len(ids) > MAX_ORDERS
       THEN /\ pc' = "raised"
            /\ retorno' = Raise("Limite de pedidos excedido", MAX_ORDERS)
            /\ UNCHANGED pedidos
       ELSE /\ pc' = IF ids = <<>> THEN "enviando" ELSE "montando"
            /\ pedidos' = ids
            /\ UNCHANGED retorno
    /\ UNCHANGED <<tvars, file, world, token, df, npedido, vendas, erros, nvenda,
                   resultados, calls>>

\* MontarPedido that leaves the loop at the first order that fails.
MontarPedidoParando ==
    /\ pc = "montando"
    /\ npedido < Len(pedidos)
    /\ \E r \in {MontarUm(df, pedidos[npedido + 1])} :
          IF r.ok
          THEN /\ vendas' = Append(vendas, r.val)
               /\ pc' = IF npedido + 1 = Len(pedidos) THEN "enviando" ELSE "montando"
               /\ UNCHANGED erros
          ELSE /\ erros' = Append(erros, [pedido_id |-> Join(pedidos[npedido + 1]),
                                          erro |-> r])
               /\ pc' = "enviando"
               /\ UNCHANGED vendas
    /\ npedido' = npedido + 1
    /\ UNCHANGED <<tvars, file, world, token, df, pedidos, nvenda, resultados, calls,
                   retorno>>

\* Lines 500-573: one turn of the loop over the order ids.
MontarPedido ==
    /\ pc = "montando"
    /\ npedido < Len(pedidos)
    /\ \E r \in {MontarUm(df, pedidos[npedido + 1])} :
          IF r.ok
          THEN vendas' = Append(vendas, r.val) /\ UNCHANGED erros
          ELSE erros' = Append(erros, [pedido_id |-> Join(pedidos[npedido + 1]),
                                       erro |-> r])
               /\ UNCHANGED vendas
    /\ npedido' = npedido + 1
    /\ pc' = IF npedido + 1 = Len(pedidos) THEN "enviando" ELSE "montando"
    /\ UNCHANGED <<tvars, file, world, token, df, pedidos, nvenda, resultados, calls,
                   retorno>>

\* ProcessarVenda without the try of line 703: the exception of one order
\* leaves processar_upload.
ProcessarVendaAbortando ==
    /\ pc = "enviando"
    /\ nvenda < Len(vendas)
    /\ \E r \in {EnviarVenda(vendas[nvenda + 1])} :
          /\ calls' = Append(calls, r.calls)
          /\ IF r.res.status = "erro"
             THEN /\ pc' = "raised"
                  /\ retorno' = r.res.mensagem
                  /\ UNCHANGED <<resultados, nvenda>>
             ELSE /\ resultados' = Append(resultados, r.res)
                  /\ nvenda' = nvenda + 1
                  /\ UNCHANGED <<pc, retorno>>
    /\ UNCHANGED <<tvars, file, world, token, df, pedidos, npedido, vendas, erros>>

\* Lines 702-723: one turn of the loop over the aggregates.
ProcessarVenda ==
    /\ pc = "enviando"
    /\ nvenda < Len(vendas)
    /\ \E r \in {EnviarVenda(vendas[nvenda + 1])} :
          /\ resultados' = Append(resultados, r.res)
          /\ calls' = Append(calls, r.calls)
    /\ nvenda' = nvenda + 1
    /\ UNCHANGED <<tvars, file, world, token, pc, df, pedidos, npedido, vendas, erros,
                   retorno>>

CountStatus(rows, st) == Cardinality({i \in DOMAIN rows : rows[i].status = st})

\* The report with total_pedidos counting the refused orders too.
ResumoComRecusados ==
    /\ pc = "enviando"
    /\ nvenda = Len(vendas)
    /\ IF resultados = <<>>
       THEN pc' = "raised" /\ retorno' = Raise("KeyError", "status")
       ELSE /\ pc' = "returned"
            /\ retorno' = Return(
                 [resumo |-> [total_pedidos |-> Len(vendas) + Len(erros),
                              sucesso |-> CountStatus(resultados, "criada"),
                              erros |-> CountStatus(resultados, "erro")],
                  resultado_df |-> resultados,
                  erros_montagem_df |-> erros])
    /\ UNCHANGED <<tvars, file, world, token, df, pedidos, npedido, vendas, erros,
                   nvenda, resultados, calls>>

\* Lines 725-736: the report.  pd.DataFrame([]) has no column, so
\* df_result["status"] raises KeyError when resultados is empty.
Resumo ==
    /\ pc = "enviando"
    /\ nvenda = Len(vendas)
    /\ IF resultados = <<>>
       THEN pc' = "raised" /\ retorno' = Raise("KeyError", "status")
       ELSE /\ pc' = "returned"
            /\ retorno' = Return(
                 [resumo |-> [total_pedidos |-> Len(vendas),
                              sucesso |-> CountStatus(resultados, "criada"),
                              erros |-> CountStatus(resultados, "erro")],
                  resultado_df |-> resultados,
                  erros_montagem_df |-> erros])
    /\ UNCHANGED <<tvars, file, world, token, df, pedidos, npedido, vendas, erros,
                   nvenda, resultados, calls>>

Next ==
    \/ VerificarToken
    \/ Parse
    \/ MontarInicio
    \/ MontarPedido
    \/ ProcessarVenda
    \/ Resumo

-----------------------------------------------------------------------------
(* The sheets, the services and the tokens the runs start from             *)

\* Rows of the small sheets (the sheets that test the two limits have up to
\* MAX_ROWS + 1 rows).
MaxRows == 2

\* The columns of a sheet: <<label, field of the row put under the label>>.
\* The internal names, accepted as they are (IDENTITY_INTERNAL).
HeaderEN ==
    << <<<<"p","e","d","i","d","o","_","i","d">>, "pedido_id">>,
       <<<<"s","a","l","e","_","d","a","t","e">>, "sale_date">>,
       <<<<"s","t","a","t","u","s">>, "status">>,
       <<<<"c","u","s","t","o","m","e","r","_","t","i","p","o">>, "customer_tipo">>,
       <<<<"c","u","s","t","o","m","e","r","_","n","o","m","e">>, "customer_nome">>,
       <<<<"c","u","s","t","o","m","e","r","_","d","o","c","u","m","e","n","t","o">>, "customer_documento">>,
       <<<<"o","b","s","e","r","v","a","c","a","o">>, "observacao">>,
       <<<<"s","h","i","p","p","i","n","g","_","c","o","s","t">>, "shipping_cost">>,
       <<<<"i","t","e","m","_","t","i","p","o">>, "item_tipo">>,
       <<<<"i","t","e","m","_","c","o","d","i","g","o">>, "item_codigo">>,
       <<<<"i","t","e","m","_","q","u","a","n","t","i","d","a","d","e">>, "item_quantidade">>,
       <<<<"i","t","e","m","_","u","n","i","t","_","p","r","i","c","e">>, "item_unit_price">>,
       <<<<"p","a","y","m","e","n","t","_","m","e","t","h","o","d">>, "payment_method">>,
       <<<<"p","a","y","m","e","n","t","_","a","m","o","u","n","t">>, "payment_amount">>,
       <<<<"p","a","y","m","e","n","t","_","d","u","e","_","d","a","t","e">>, "payment_due_date">> >>

\* The labels of the template of gerar_modelo_planilha (lines 202-217).
HeaderPT ==
    << <<<<"N","ú","m","e","r","o","*">>, "pedido_id">>,
       <<<<"D","a","t","a"," ","d","a"," ","V","e","n","d","a","*">>, "sale_date">>,
       <<<<"S","i","t","u","a","ç","ã","o","*">>, "status">>,
       <<<<"T","i","p","o"," ","d","o"," ","C","l","i","e","n","t","e","*">>, "customer_tipo">>,
       <<<<"N","o","m","e"," ","d","o"," ","C","l","i","e","n","t","e","*">>, "customer_nome">>,
       <<<<"D","o","c","u","m","e","n","t","o"," ","d","o"," ","C","l","i","e","n","t","e","*">>, "customer_documento">>,
       <<<<"O","b","s","e","r","v","a","ç","õ","e","s">>, "observacao">>,
       <<<<"C","u","s","t","o"," ","d","e"," ","F","r","e","t","e">>, "shipping_cost">>,
       <<<<"T","i","p","o"," ","d","o"," ","I","t","e","m","*">>, "item_tipo">>,
       <<<<"C","ó","d","i","g","o"," ","d","o"," ","I","t","e","m","*">>, "item_codigo">>,
       <<<<"Q","u","a","n","t","i","d","a","d","e","*">>, "item_quantidade">>,
       <<<<"V","a","l","o","r"," ","U","n","i","t","á","r","i","o","*">>, "item_unit_price">>,
       <<<<"M","é","t","o","d","o"," ","d","e"," ","P","a","g","a","m","e","n","t","o","*">>, "payment_method">>,
       <<<<"V","a","l","o","r"," ","d","a"," ","P","a","r","c","e","l","a","*">>, "payment_amount">>,
       <<<<"V","e","n","c","i","m","e","n","t","o"," ","d","a"," ","P","a","r","c","e","l","a","*">>, "payment_due_date">>,
       <<<<"C","o","n","t","a"," ","F","i","n","a","n","c","e","i","r","a"," ","(","I","D",")">>, "id_conta_financeira">> >>

\* A header with the declared total.
HeaderTotal == Append(HeaderEN, <<<<"T","o","t","a","l"," ","D","e","c","l","a","r","a","d","o">>, "total_declarado">>)

\* A header without the optional columns.
HeaderMin == SelectSeq(HeaderEN, LAMBDA c : c[2] \in Range(Obrigatorias))

\* A header without one of its columns.
Sem(header, field) == SelectSeq(header, LAMBDA c : c[2] # field)

\* The sheet with these columns and these rows (a row gives a cell for
\* every field).
Sheet(header, rows) ==
    [ header |-> [j \in DOMAIN header |-> header[j][1]],
      rows   |-> [i \in DOMAIN rows |->
                    [j \in DOMAIN header |-> rows[i][header[j][2]]]] ]

\* The first sample order of the template (lines 201-218), without today's date.
BaseRow ==
    [ pedido_id |-> Txt(<<"1","0","0","1">>),
      sale_date |-> Date(0),
      status |-> Txt(<<"E","M","_","A","N","D","A","M","E","N","T","O">>),
      customer_tipo |-> Txt(<<"F","I","S","I","C","A">>),
      customer_nome |-> Txt(<<"A","n","a"," ","P","a","u","l","a"," ","R","i","b","e","i","r","o">>),
      customer_documento |-> Txt(<<"1","2","3","4","5","6","7","8","9","0","9">>),
      observacao |-> Blank,
      shipping_cost |-> Num(0),
      item_tipo |-> Txt(<<"S","E","R","V","I","C","O">>),
      item_codigo |-> Txt(<<"S","V","C","-","0","0","1">>),
      item_quantidade |-> Num(1000),
      item_unit_price |-> Num(150000),
      payment_method |-> Txt(<<"P","I","X">>),
      payment_amount |-> Num(150000),
      payment_due_date |-> Date(0),
      id_conta_financeira |-> Blank,
      total_declarado |-> Blank ]

\* Order ids: with and without digits, with blanks around.
PedidoIds ==
    << <<"1","0","0","1">>, <<"P","E","D","-","1","0","0","2">>, <<"1","0","0","3"," ">>, <<"P","E","D","-","A","B","C">>, <<"1","0","0","5">> >>

\* The row with one field changed.
Com1(row, f, v) == [row EXCEPT ![f] = v]

\* Deviations of one row from BaseRow: each is a set of <<field, cell>>.
RowOk == {}

RowProduto ==
    { <<"item_tipo", Txt(<<"p","r","o","d","u","t","o">>)>>, <<"item_codigo", Txt(<<" ","P","R","D","-","0","0","1">>)>> }

RowProdutoDesconhecido ==
    { <<"item_tipo", Txt(<<"P","R","O","D","U","T","O">>)>>, <<"item_codigo", Txt(<<"P","R","D","-","4","0","4">>)>> }

RowBoleto == { <<"payment_method", Txt(<<"b","o","l","e","t","o">>)>> }

RowPixItau == { <<"payment_method", Txt(<<"p","i","x","-","i","t","a","u">>)>> }

RowMetodoInvalido == { <<"payment_method", Txt(<<"F","I","A","D","O">>)>> }

RowQuantidadeZero == { <<"item_quantidade", Num(0)>> }

RowTipoItemInvalido == { <<"item_tipo", Txt(<<"B","R","I","N","D","E">>)>> }

RowPrecoNegativo ==
    { <<"item_unit_price", Num(-150000)>>, <<"payment_amount", Num(-150000)>> }

RowParcelaZero ==
    { <<"item_unit_price", Num(0)>>, <<"payment_amount", Blank>> }

RowVencimentoInvalido == { <<"payment_due_date", Txt(<<"3","1","/","0","2","/","2","0","2","5">>)>> }

RowDataVendaVazia == { <<"sale_date", Blank>> }

RowTipoClienteInvalido == { <<"customer_tipo", Txt(<<"M","E","I">>)>> }

RowCpfCurto == { <<"customer_documento", Txt(<<"1","2","3",".","4","5","6",".","7","8","9","-","0">>)>> }

RowCpfPontuado == { <<"customer_documento", Txt(<<"1","2","3",".","4","5","6",".","7","8","9","-","0","9">>)>> }

RowJuridica ==
    { <<"customer_tipo", Txt(<<" ","j","u","r","i","d","i","c","a">>)>>,
      <<"customer_documento", Txt(<<"1","2",".","3","4","5",".","6","7","8","/","0","0","0","1","-","9","9">>)>> }

RowJuridicaComCpf == { <<"customer_tipo", Txt(<<"J","U","R","I","D","I","C","A">>)>> }

RowEstrangeira ==
    { <<"customer_tipo", Txt(<<"E","s","t","r","a","n","g","e","i","r","a">>)>>,
      <<"customer_documento", Txt(<<"X","1">>)>> }

RowParcelaMaior == { <<"payment_amount", Num(150010)>> }

RowValorTexto ==
    { <<"item_unit_price", Txt(<<"1","5","0",",","0","0">>)>>, <<"payment_amount", Txt(<<" ","1","5","0",".","0"," ">>)>> }

RowValorIlegivel == { <<"payment_amount", Txt(<<"1",".","2","3","4",",","5","6">>)>> }

\* BaseRow with the deviations dev, for the order id.
RECURSIVE Desviar(_, _)
Desviar(row, dev) ==
    IF dev = {} THEN row
    ELSE LET d == CHOOSE x \in dev : TRUE
         IN  Desviar(Com1(row, d[1], d[2]), dev \ {d})

Row(id, dev) == Desviar(Com1(BaseRow, "pedido_id", Txt(id)), dev)

\* All the sequences of 0 to n elements of S.
SeqsUpTo(S, n) == UNION {[1..k -> S] : k \in 0..n}


\* The services.  In all of them SVC-001 is a service, PRD-001 a product and
\* every other code is unknown.
Catalogo ==
    [ produto  |-> (<<"codigo_sku", "PRD-001">> :>
                      DictResp([itens |-> <<[id |-> "prod-1"]>>])),
      products |-> <<>>,
      servicos |-> (<<"codigo", "SVC-001">> :>
                      DictResp([itens |-> <<[id |-> "serv-1"]>>])) ]

ClienteAna ==
    [id |-> "cli-ana", nome |-> "Ana Paula Ribeiro", cpf |-> <<"1","2","3",".","4","5","6",".","7","8","9","-","0","9">>]

Gets(pessoas) ==
    ("/v1/produto" :> Catalogo.produto) @@ ("/v1/products" :> Catalogo.products)
    @@ ("/v1/servicos" :> Catalogo.servicos) @@ ("/v1/pessoas" :> pessoas)

Posts(pessoa, venda) == ("/v1/pessoa" :> pessoa) @@ (SALES_PATH :> venda)

Sempre(resp) == [by |-> <<>>, default |-> resp]

\* The customer of BaseRow is registered; every sale is accepted.
MundoOk ==
    [ get  |-> Gets(<<"documento", "12345678909">> :>
                      DictResp([data |-> <<ClienteAna>>])),
      post |-> Posts(Sempre(DictResp([id |-> "cli-novo"])),
                     Sempre(DictResp([id |-> "venda-1"]))),
      id_conta_financeira |-> Null ]

\* No customer is registered, creation works; the sale of order PED-1002
\* is refused.
MundoRecusa ==
    [ get  |-> Gets(<<>>),
      post |-> Posts(Sempre(DictResp([uuid |-> "cli-novo"])),
                     [by |-> ("PED-1002" :> Exc),
                      default |-> DictResp([identificador |-> "venda-2"])]),
      id_conta_financeira |-> "conta-1" ]

\* No customer is registered and the creation answers without an id; the
\* searches fail.
MundoSemId ==
    [ get  |-> Gets(<<"documento", "12345678909">> :> Exc),
      post |-> Posts(Sempre(DictResp([nome |-> "Ana Paula Ribeiro"])),
                     Sempre(DictResp([id |-> "venda-3"]))),
      id_conta_financeira |-> Null ]

\* The stored token row and the clock.
TokenValido == [present |-> TRUE, expires_at |-> 2, now |-> 1]

TokenExpirado == [present |-> TRUE, expires_at |-> 1, now |-> 1]

TokenAusente == [present |-> FALSE, expires_at |-> 0, now |-> 1]


(***************************************************************************)
(* The token store (utils/token_store.py), the OAuth calls (utils/oauth.py) *)
(* and the authenticated request (utils/ca_api.py).  Times are seconds.     *)
(* Every function that reads the store also writes st.session_state, so a  *)
(* function is an operator from the state it reads to its result and the   *)
(* state it leaves.                                                        *)
(***************************************************************************)

\* A name that no statement has bound: reading it raises NameError.
Unbound == "<unbound>"

\* token_store.py has no assignment to _TABLE_READY, and no other file of
\* the repository sets it: the global read at line 33 is unbound.
TABLE_READY == Unbound

DEFAULT_COMPANY_ID == "default"

REFRESH_MARGIN_SEC == 90

\* The company of the examples: the sub of the id_token.
Cid == "cid"

\* The n-th pair issued by the token endpoint.
AccessTokenN(n) == "at-" \o ToString(n)

RefreshTokenN(n) == "rt-" \o ToString(n)

\* A reading of the clock kept in the session.
Instante(t) == [k |-> "time", t |-> t]

\* A row of the table tokens, and the copy of it in the session.
TokenRow(company_id, access_token, refresh_token, expires_at) ==
    [company_id |-> company_id, access_token |-> access_token,
     refresh_token |-> refresh_token, expires_at |-> expires_at]

\* _ensure_table(): lines 32-34 read the global before anything else.
EnsureTable ==
    IF TABLE_READY = Unbound
    THEN Raise("NameError", "_TABLE_READY")
    ELSE Return(None)

\* Line 73: utcnow() + timedelta(seconds=max(60, int(expires_in) - 90)).
ExpiresAt(now, expires_in) == now + Max(60, expires_in - REFRESH_MARGIN_SEC)

\* upsert_tokens(): the except of line 67 names OperationalError only, so
\* any other exception of _ensure_table leaves the function; the row is
\* written after it (lines 72-86) and the session is not touched.
UpsertTokens(access_token, refresh_token, expires_in, company_id, tab, now) ==
    LET t == EnsureTable
        cid == IF company_id = Null THEN DEFAULT_COMPANY_ID ELSE company_id
    IN  IF ~t.ok
        THEN [res |-> t, tabela |-> tab]
        ELSE [res |-> Return(None),
              tabela |-> TokenRow(cid, access_token, refresh_token,
                                  ExpiresAt(now, expires_in))]

\* _session_tokens_for(company_id), lines 181-196.
SessionTokensFor(ss, company_id) ==
    IF ss.tokens = None THEN None
    ELSE IF ss.tokens.company_id # company_id THEN None
    ELSE ss.tokens

\* get_tokens(): the session copy first, then at most one read of the table
\* every 30 s; every exception of the read is swallowed (line 126).
GetTokens(company_id, ss, tab, now) ==
    LET cid == IF company_id = Null THEN DEFAULT_COMPANY_ID ELSE company_id
        tok == SessionTokensFor(ss, cid)
        ss1 == [ss EXCEPT !.last_check = Instante(now)]
    IN  IF tok # None THEN [val |-> tok, ss |-> ss]
        ELSE IF ss.last_check # None /\ now - ss.last_check.t < 30
        THEN [val |-> None, ss |-> ss]
        ELSE IF ~EnsureTable.ok THEN [val |-> None, ss |-> ss1]
        ELSE IF tab # None /\ tab.company_id = cid
        THEN [val |-> tab, ss |-> [ss1 EXCEPT !.tokens = tab]]
        ELSE [val |-> None, ss |-> ss1]

\* has_valid_token(company_id), lines 131-139.
HasValidTokenDe(company_id, ss, tab, now) ==
    LET g == GetTokens(company_id, ss, tab, now)
    IN  [val |-> g.val # None /\ g.val.expires_at > now, ss |-> g.ss]

\* get_any_company_id(), lines 141-151: _ensure_table() outside any try.
GetAnyCompanyId(tab) ==
    IF ~EnsureTable.ok THEN EnsureTable
    ELSE IF tab = None THEN Return(Null)
    ELSE Return(tab.company_id)

\* _get_company_id_or_fallback(), ca_api.py lines 12-18.
GetCompanyIdOrFallback(ss, tab) ==
    IF ss.company_id # Null THEN Return(ss.company_id)
    ELSE LET r == GetAnyCompanyId(tab)
         IN  IF ~r.ok THEN r
             ELSE IF r.val = Null
             THEN Raise("RuntimeError", "Nenhuma empresa conectada")
             ELSE r

\* _session_token_if_valid(), ca_api.py lines 20-31.
SessionTokenIfValid(ss, now) ==
    IF ss.access_token = None THEN None
    ELSE IF ss.access_token.expires_at > now THEN ss.access_token
    ELSE None

\* What a call of the token functions leaves behind.
Feito(res, ss, tab, prov, reqs) ==
    [res |-> res, ss |-> ss, tabela |-> tab, provedor |-> prov, pedidos |-> reqs]

\* The request of oauth.py lines 93-103 to AUTH_BASE/token, and whether the
\* endpoint took the refresh token it carries.
PedidoRefresh(refresh_token, prov) ==
    [url |-> "token", refresh_token |-> refresh_token,
     aceito |-> refresh_token = prov.refresh]

\* The token endpoint answers a refresh with a new access token, and with a
\* new refresh token when it rotates; it refuses a refresh token that is no
\* longer the current one.
Emitir(prov, now, roda, expires_in) ==
    [n |-> prov.n + 1,
     refresh |-> IF roda THEN RefreshTokenN(prov.n + 1) ELSE prov.refresh,
     emitido |-> now, expires_in |-> expires_in]

PayloadDe(prov, roda) ==
    [access_token |-> AccessTokenN(prov.n),
     refresh_token |-> IF roda THEN prov.refresh ELSE Null,
     expires_in |-> prov.expires_in]

\* refresh_access_token(company_id), oauth.py lines 85-114.
RefreshAccessToken(company_id, ss, tab, prov, now, roda, expires_in) ==
    LET g == GetTokens(company_id, ss, tab, now)
    IN  IF g.val = None
        THEN Feito(Raise("RuntimeError", "Refresh token nao encontrado"),
                   g.ss, tab, prov, <<>>)
        ELSE LET tokens == g.val
                 pedido == PedidoRefresh(tokens.refresh_token, prov)
             IN  IF ~pedido.aceito
                 THEN Feito(Raise("HTTPError", 400), g.ss, tab, prov, <<pedido>>)
                 ELSE LET prov1 == Emitir(prov, now, roda, expires_in)
                          payload == PayloadDe(prov1, roda)
                          u == UpsertTokens(payload.access_token,
                                            IF payload.refresh_token = Null
                                            THEN tokens.refresh_token
                                            ELSE payload.refresh_token,
                                            payload.expires_in,
                                            IF company_id = Null
                                            THEN tokens.company_id ELSE company_id,
                                            tab, now)
                      IN  Feito(IF u.res.ok THEN Return(payload) ELSE u.res,
                                g.ss, u.tabela, prov1, <<pedido>>)

\* Lines 51-53 of _ensure_access_token: the explicit refresh.
UltimaTentativa(company_id, f, now, roda, expires_in) ==
    LET r == RefreshAccessToken(company_id, f.ss, f.tabela, f.provedor, now,
                                roda, expires_in)
    IN  Feito(IF r.res.ok THEN Return(<<company_id, r.res.val.access_token>>)
              ELSE r.res,
              r.ss, r.tabela, r.provedor, f.pedidos \o r.pedidos)

\* Lines 43-53 of _ensure_access_token, with the row the try left.
ComLinha(company_id, row, f, now, roda, expires_in) ==
    IF row # None
    THEN Feito(Return(<<company_id, row.access_token>>),
               f.ss, f.tabela, f.provedor, f.pedidos)
    ELSE LET at == SessionTokenIfValid(f.ss, now)
         IN  IF at # None
             THEN Feito(Return(<<company_id, at.access_token>>),
                        f.ss, f.tabela, f.provedor, f.pedidos)
             ELSE UltimaTentativa(company_id, f, now, roda, expires_in)

\* _ensure_access_token(), ca_api.py lines 33-53.  The try of lines 37-42
\* swallows every exception of the refresh and keeps the row read before it.
EnsureAccessToken(ss, tab, prov, now, roda, expires_in) ==
    LET c == GetCompanyIdOrFallback(ss, tab)
    IN  IF ~c.ok THEN Feito(c, ss, tab, prov, <<>>)
        ELSE LET company_id == c.val
                 g == GetTokens(company_id, ss, tab, now)
                 h == HasValidTokenDe(company_id, g.ss, tab, now)
             IN  IF h.val
                 THEN ComLinha(company_id, g.val, Feito(None, h.ss, tab, prov, <<>>),
                               now, roda, expires_in)
                 ELSE LET r == RefreshAccessToken(company_id, h.ss, tab, prov, now,
                                                  roda, expires_in)
                          g2 == GetTokens(company_id, r.ss, r.tabela, now)
                      IN  IF r.res.ok
                          THEN ComLinha(company_id, g2.val,
                                        Feito(None, g2.ss, r.tabela, r.provedor, r.pedidos),
                                        now, roda, expires_in)
                          ELSE ComLinha(company_id, g.val, r, now, roda, expires_in)

\* str() of the pair returned by _ensure_access_token, as an f-string
\* formats it.
StrDoPar(par) == "('" \o par[1] \o "', '" \o par[2] \o "')"

\* Lines 78-80: token = _ensure_access_token(); f"Bearer {token}".
Authorization(par) == "Bearer " \o StrDoPar(par)

\* The request of api_get, with the result of _ensure_access_token it was
\* built from.
PedidoApi(path, par) ==
    [url |-> path, Authorization |-> Authorization(par), token |-> par]

\* exchange_code_for_tokens(code), oauth.py lines 45-83: the endpoint issues
\* a new pair and the company is the sub of the id_token.
ExchangeCodeForTokens(ss, tab, prov, now, expires_in) ==
    LET prov1 == Emitir(prov, now, TRUE, expires_in)
        payload == PayloadDe(prov1, TRUE)
        u == UpsertTokens(payload.access_token, payload.refresh_token,
                          payload.expires_in, Cid, tab, now)
    IN  Feito(IF u.res.ok THEN Return([payload |-> payload, company_id |-> Cid])
              ELSE u.res,
              ss, u.tabela, prov1, <<>>)

\* The clock stops after this many steps of 30 s.
MaxInstante == 4

\* The token endpoint issues at most this many pairs after the first.
MaxEmissoes == 2

\* api_get is called while fewer requests than this were sent.
MaxEnviados == 4

\* The lifetimes the token endpoint grants, in seconds.
Validades == {30, 120, 3600}

\* A session in which nothing was stored.
SessaoVazia ==
    [company_id |-> Null, tokens |-> None, last_check |-> None, access_token |-> None]

\* The endpoint after it issued the pair 0 at time 0.
ProvedorInicial(expires_in) ==
    [n |-> 0, refresh |-> RefreshTokenN(0), emitido |-> 0, expires_in |-> expires_in]

\* The pair 0 as lines 72-86 store it.
LinhaInicial(expires_in) ==
    TokenRow(Cid, AccessTokenN(0), RefreshTokenN(0), ExpiresAt(0, expires_in))

SemSaida == [op |-> "none", res |-> None]

\* The state of the token store while processar_upload runs.
TokensParados ==
    /\ session_state = SessaoVazia
    /\ tabela = None
    /\ provedor = ProvedorInicial(3600)
    /\ relogio = 0
    /\ enviados = <<>>
    /\ saida = SemSaida

\* handle_callback(), app.py lines 14-27: the company id is kept in the
\* session when exchange_code_for_tokens returns, and the exception is shown
\* when it raises.
HandleCallback ==
    /\ provedor.n < MaxEmissoes
    /\ \E expires_in \in Validades :
       \E f \in {ExchangeCodeForTokens(session_state, tabela, provedor, relogio, expires_in)} :
          /\ session_state' = IF f.res.ok
                              THEN [f.ss EXCEPT !.company_id = f.res.val.company_id]
                              ELSE f.ss
          /\ tabela' = f.tabela
          /\ provedor' = f.provedor
          /\ saida' = [op |-> "exchange_code_for_tokens", res |-> f.res]
    /\ UNCHANGED <<pvars, relogio, enviados>>

\* One call has_valid_token(company_id) with the company id of the session,
\* as main makes it (app.py lines 202-208).
Conferir ==
    /\ \E h \in {HasValidTokenDe(session_state.company_id, session_state, tabela, relogio)} :
          /\ session_state' = h.ss
          /\ saida' = [op |-> "has_valid_token", res |-> Return(h.val)]
    /\ UNCHANGED <<pvars, tabela, provedor, relogio, enviados>>

\* api_get(path), ca_api.py lines 77-83.  renovou tells that the endpoint
\* issued a pair during the call, and token is what _ensure_access_token
\* returned or raised.
ApiGetAutenticado ==
    /\ Len(enviados) < MaxEnviados
    /\ provedor.n < MaxEmissoes
    /\ \E roda \in BOOLEAN, expires_in \in Validades, status \in {200, 401} :
       \E f \in {EnsureAccessToken(session_state, tabela, provedor, relogio, roda, expires_in)} :
          /\ session_state' = f.ss
          /\ tabela' = f.tabela
          /\ provedor' = f.provedor
          /\ enviados' = IF f.res.ok
                         THEN f.pedidos \o <<PedidoApi("/v1/pessoas", f.res.val)>>
                         ELSE f.pedidos
          /\ saida' = [op |-> "api_get",
                       res |-> IF ~f.res.ok THEN f.res
                               ELSE IF status = 200 THEN Return(status)
                               ELSE Raise("HTTPError", status),
                       token |-> f.res,
                       renovou |-> f.provedor.n # provedor.n]
    /\ UNCHANGED <<pvars, relogio>>

\* Thirty seconds pass.
Tick ==
    /\ relogio < 30 * MaxInstante
    /\ relogio' = relogio + 30
    /\ UNCHANGED <<pvars, session_state, tabela, provedor, enviados, saida>>

NextTokens ==
    \/ HandleCallback
    \/ Conferir
    \/ ApiGetAutenticado
    \/ Tick

\* Lines 72-86 of upsert_tokens, the statements that follow _ensure_table():
\* the pair the endpoint has just issued is stored with the expiry of line 73.
Guardar ==
    /\ tabela = None
    /\ relogio = provedor.emitido
    /\ tabela' = TokenRow(Cid, AccessTokenN(provedor.n), provedor.refresh,
                          ExpiresAt(relogio, provedor.expires_in))
    /\ saida' = [op |-> "upsert_tokens", res |-> Return(None)]
    /\ UNCHANGED <<pvars, session_state, provedor, relogio, enviados>>

NextValidade ==
    \/ Guardar
    \/ Tick

\* A run starts from a sheet, a service and a token.
Cenario(f, w, t) == [file |-> f, world |-> w, token |-> t]

\* Sheets of 0 to MAX_ROWS + 1 rows over MAX_ORDERS + 1 order ids: the two
\* limits, reached and exceeded; the rows of an order, apart in the sheet.
CenariosLimites ==
    { Cenario(Sheet(HeaderEN, rows), MundoOk, TokenValido) :
        rows \in SeqsUpTo({ Row(PedidoIds[i], RowOk) : i \in 1..(MAX_ORDERS + 1) },
                          MAX_ROWS + 1) }

\* Tokens and headers: the conditions that stop the whole batch.
CenariosLoteInteiro ==
    { Cenario(Sheet(h, rows), MundoOk, t) :
        h \in {HeaderEN, HeaderPT, HeaderMin, HeaderTotal}
              \cup {Sem(HeaderEN, c) : c \in {"pedido_id", "payment_due_date", "status"}}
              \cup {Sem(HeaderPT, c) : c \in {"item_codigo", "observacao"}},
        rows \in { <<Row(PedidoIds[1], RowOk)>>,
                   <<Row(PedidoIds[1], RowOk), Row(PedidoIds[2], RowProduto)>> },
        t \in {TokenValido, TokenExpirado, TokenAusente} }

\* Batches of up to MaxRows rows over three orders, which differ in what the
\* service knows of them, in their payment methods and in their validity.
CenariosLote ==
    { Cenario(Sheet(HeaderEN, rows), w, TokenValido) :
        rows \in SeqsUpTo({ Row(PedidoIds[i], dev) :
                              i \in {1, 2, 4},
                              dev \in {RowOk, RowProdutoDesconhecido, RowBoleto,
                                       RowQuantidadeZero} },
                          MaxRows),
        w \in {MundoOk, MundoRecusa, MundoSemId} }

\* One order, each of its rows with one defect at most.
CenariosCampos ==
    { Cenario(Sheet(HeaderPT, rows), MundoOk, TokenValido) :
        rows \in SeqsUpTo({ Row(PedidoIds[3], dev) :
                              dev \in {RowOk, RowProduto, RowTipoItemInvalido,
                                       RowPrecoNegativo, RowParcelaZero,
                                       RowVencimentoInvalido, RowDataVendaVazia,
                                       RowTipoClienteInvalido, RowCpfCurto,
                                       RowCpfPontuado, RowJuridica,
                                       RowJuridicaComCpf, RowEstrangeira,
                                       RowParcelaMaior, RowValorTexto,
                                       RowValorIlegivel, RowMetodoInvalido} },
                          MaxRows) \ {<<>>} }

\* Rows for the totals of an order: <<unit price, freight, installment,
\* declared total>>, for a quantity of 1.
Totais ==
    { <<Num(150000), Num(0), Num(150000), Num(150000)>>,
      <<Num(150000), Num(0), Num(150000), Num(300000)>>,
      <<Num(150000), Num(0), Num(150010), Num(150000)>>,
      <<Num(150000), Num(0), Num(140000), Num(150000)>>,
      <<Num(150000), Num(10000), Num(160000), Num(160000)>>,
      <<Num(125), Blank, Num(120), Txt(<<"0",",","1","2">>)>>,
      <<Num(150000), Num(0), Num(150000), Num(160000)>>,
      <<Num(150000), Num(0), Num(150004), Num(150004)>>,
      <<Num(150000), Num(0), Num(150000), Blank>> }

RowTotais(t) ==
    { <<"item_unit_price", t[1]>>, <<"shipping_cost", t[2]>>,
      <<"payment_amount", t[3]>>, <<"total_declarado", t[4]>> }

\* A row that fails the check of its item and declares a total that is not
\* the computed one.
RowTotalEQuantidade == { <<"item_quantidade", Num(0)>>, <<"total_declarado", Num(160000)>> }

\* One order of up to MaxRows rows, with and without the column of the
\* declared total.
CenariosTotais ==
    { Cenario(Sheet(h, rows), MundoOk, TokenValido) :
        h \in {HeaderEN, HeaderTotal},
        rows \in SeqsUpTo({ Row(PedidoIds[1], dev) :
                              dev \in {RowTotais(t) : t \in Totais}
                                      \cup {RowTotalEQuantidade} },
                          MaxRows) \ {<<>>} }

\* The canonical names and the alias keys, as texts.
MethodText ==
    [ PIX |-> <<"P","I","X">>,
      BOLETO_BANCARIO |-> <<"B","O","L","E","T","O","_","B","A","N","C","A","R","I","O">>,
      CARTAO_CREDITO |-> <<"C","A","R","T","A","O","_","C","R","E","D","I","T","O">>,
      CARTAO_DEBITO |-> <<"C","A","R","T","A","O","_","D","E","B","I","T","O">>,
      DEPOSITO_BANCARIO |-> <<"D","E","P","O","S","I","T","O","_","B","A","N","C","A","R","I","O">>,
      TRANSFERENCIA_BANCARIA |-> <<"T","R","A","N","S","F","E","R","E","N","C","I","A","_","B","A","N","C","A","R","I","A">>,
      DINHEIRO |-> <<"D","I","N","H","E","I","R","O">>,
      CARTEIRA_DIGITAL |-> <<"C","A","R","T","E","I","R","A","_","D","I","G","I","T","A","L">>,
      CREDITO_LOJA |-> <<"C","R","E","D","I","T","O","_","L","O","J","A">>,
      CHEQUE |-> <<"C","H","E","Q","U","E">>,
      PIX_ITAU |-> <<"P","I","X","_","I","T","A","U">>,
      PIX_BRADESCO |-> <<"P","I","X","_","B","R","A","D","E","S","C","O">>,
      PIX_BB |-> <<"P","I","X","_","B","B">>,
      PIX_CAIXA |-> <<"P","I","X","_","C","A","I","X","A">>,
      QRCODE |-> <<"Q","R","C","O","D","E">>,
      CHAVE_PIX |-> <<"C","H","A","V","E","_","P","I","X">>,
      BOLETO |-> <<"B","O","L","E","T","O">>,
      BOLETO_BB |-> <<"B","O","L","E","T","O","_","B","B">>,
      BOLETO_CAIXA |-> <<"B","O","L","E","T","O","_","C","A","I","X","A">>,
      BOLETO_BRADESCO |-> <<"B","O","L","E","T","O","_","B","R","A","D","E","S","C","O">>,
      CREDITO |-> <<"C","R","E","D","I","T","O">>,
      DEBITO |-> <<"D","E","B","I","T","O">>,
      TRANSFERENCIA |-> <<"T","R","A","N","S","F","E","R","E","N","C","I","A">>,
      TED |-> <<"T","E","D">>,
      DOC |-> <<"D","O","C">>,
      DEPOSITO |-> <<"D","E","P","O","S","I","T","O">>,
      WALLET |-> <<"W","A","L","L","E","T">> ]

\* The vowels and the c of a lower-case text, with a diacritic.
Acentuar(s) ==
    [i \in DOMAIN s |->
        CASE s[i] = "a" -> "ã" [] s[i] = "e" -> "ê" [] s[i] = "i" -> "í"
          [] s[i] = "o" -> "ó" [] s[i] = "u" -> "ú" [] s[i] = "c" -> "ç"
          [] OTHER -> s[i]]

Grafias == {"igual", "minusculas", "hifen", "espaco", "margens", "acentos"}

\* The ways a sheet writes a name: in lower case, with "-" or " " for "_",
\* with blanks around, with diacritics.
Grafia(t, g) ==
    CASE g = "igual" -> t
      [] g = "minusculas" -> Lower(t)
      [] g = "hifen" -> ReplaceChar(t, "_", "-")
      [] g = "espaco" -> Lower(ReplaceChar(t, "_", " "))
      [] g = "margens" -> <<" ">> \o t \o <<"\t", " ">>
      [] g = "acentos" -> Acentuar(Lower(t))

\* Values that are neither a canonical name nor an alias key.
OutrosMetodos ==
    { Txt(<<"P","I","X","_","N","U","B","A","N","K">>), Txt(<<"p","i","x"," ","s","a","n","t","a","n","d","e","r">>), Txt(<<"P","I","X","E","L">>),
      Txt(<<"b","o","l","e","t","o","-","i","t","a","u">>), Txt(<<"B","O","L","E","T","O","S">>),
      Txt(<<"F","I","A","D","O">>), Txt(<<"C","A","R","T","A","O">>), Txt(<<"_","P","I","X">>), Txt(<<"P"," ","I","X">>),
      Txt(<<"C","H","E","Q","U","E","_","P","R","E">>), Txt(<<"T","R","A","N","S","F","E","R","Ê","N","C","I","A"," ","P","I","X">>), Txt(<<>>), Blank }

\* One order of one row, or of two rows with the same payment method, whose
\* method is written in every way.
CenariosMetodos ==
    { Cenario(Sheet(HeaderEN, rows), MundoOk, TokenValido) :
        rows \in UNION { { <<Row(PedidoIds[2], {<<"payment_method", m>>})>>,
                           <<Row(PedidoIds[2], {<<"payment_method", m>>}),
                             Row(PedidoIds[2], RowOk)>> } :
                         m \in { Txt(Grafia(MethodText[k], g)) :
                                   k \in DOMAIN MethodText, g \in Grafias }
                               \cup OutrosMetodos } }

\* The second sample order of the template (lines 219-254): a company buys
\* 2 units of PRD-001 at 100.00 and pays installments of 200.00 by boleto;
\* every row of the order repeats the item.  The sale is on day 10.
Pedido1002 == <<"1","0","0","2">>

RowBoleto1002(dia) ==
    { <<"sale_date", Date(10)>>,
      <<"status", Txt(<<"A","P","R","O","V","A","D","O">>)>>,
      <<"customer_tipo", Txt(<<"J","U","R","I","D","I","C","A">>)>>,
      <<"customer_nome", Txt(<<"E","m","p","r","e","s","a"," ","X","P","T","O"," ","L","t","d","a">>)>>,
      <<"customer_documento", Txt(<<"1","2","3","4","5","6","7","8","0","0","0","1","9","9">>)>>,
      <<"item_tipo", Txt(<<"P","R","O","D","U","T","O">>)>>,
      <<"item_codigo", Txt(<<"P","R","D","-","0","0","1">>)>>,
      <<"item_quantidade", Num(2000)>>,
      <<"item_unit_price", Num(100000)>>,
      <<"payment_method", Txt(<<"B","O","L","E","T","O","_","B","A","N","C","A","R","I","O">>)>>,
      <<"payment_amount", Num(200000)>>,
      <<"payment_due_date", Date(dia)>> }

\* A row of that order that gives an installment and leaves the cells of the
\* item empty.
RowSoParcela(dia) ==
    (RowBoleto1002(dia)
       \ { <<"item_tipo", Txt(<<"P","R","O","D","U","T","O">>)>>, <<"item_codigo", Txt(<<"P","R","D","-","0","0","1">>)>>,
           <<"item_quantidade", Num(2000)>>, <<"item_unit_price", Num(100000)>> })
    \cup { <<"item_tipo", Blank>>, <<"item_codigo", Blank>>,
           <<"item_quantidade", Blank>>, <<"item_unit_price", Blank>> }

\* A row whose item costs its installment: the installment and the day it
\* is due, for a sale on day 10.
RowParcela(valor, dia) ==
    { <<"sale_date", Date(10)>>,
      <<"item_unit_price", Num(valor)>>,
      <<"payment_amount", Num(valor)>>,
      <<"payment_due_date", Date(dia)>> }

\* One order of up to MaxRows installments, equal, one cent apart or
\* further apart, due before and after the sale.
CenariosParcelas ==
    { Cenario(Sheet(HeaderEN, rows), MundoOk, TokenValido) :
        rows \in SeqsUpTo({ Row(Pedido1002, dev) :
                              dev \in { RowParcela(v, d) :
                                          v \in {100000, 100010, 200000, 200010},
                                          d \in {0, 40} }
                                      \cup { RowBoleto1002(40), RowBoleto1002(70),
                                             RowSoParcela(70) } },
                          MaxRows) \ {<<>>} }

\* Two orders of up to MaxRows rows in all, with dates that cannot be read
\* in the first row or in a later row of an order.
CenariosDatas ==
    { Cenario(Sheet(HeaderEN, rows), w, TokenValido) :
        rows \in SeqsUpTo({ Row(PedidoIds[i], dev) :
                              i \in {1, 2},
                              dev \in {RowOk, RowVencimentoInvalido,
                                       RowDataVendaVazia} },
                          MaxRows) \ {<<>>},
        w \in {MundoOk, MundoRecusa} }

\* The rows of the sheet written by gerar_modelo_planilha, for today = day
\* 10: order 1001, paid at once, and order 1002, whose three rows repeat the
\* item and give one installment each.
ModeloRows ==
    << Row(PedidoIds[1], { <<"sale_date", Date(10)>>, <<"payment_due_date", Date(10)>> }),
       Row(Pedido1002, RowBoleto1002(40)),
       Row(Pedido1002, RowBoleto1002(70)),
       Row(Pedido1002, RowBoleto1002(100)) >>

\* The rows of the template whose positions are in S, in their order.
Escolhidas(S) ==
    LET pos == SelectSeq(<<1, 2, 3, 4>>, LAMBDA i : i \in S)
    IN  [k \in DOMAIN pos |-> ModeloRows[pos[k]]]

\* The template, and the template with rows taken out, as far as the limit
\* of rows goes.
CenariosModelo ==
    { Cenario(Sheet(HeaderPT, Escolhidas(S)), w, TokenValido) :
        S \in {T \in SUBSET (1..4) : T # {} /\ Cardinality(T) <= MAX_ROWS},
        w \in {MundoOk, MundoRecusa} }

\* Services that differ in the shape of their answers.
GetsDe(catalogo, pessoas) ==
    ("/v1/produto" :> catalogo.produto) @@ ("/v1/products" :> catalogo.products)
    @@ ("/v1/servicos" :> catalogo.servicos) @@ ("/v1/pessoas" :> pessoas)

\* PRD-001 and SVC-001 are found, in records that carry no identifier.
CatalogoSemId ==
    [ produto  |-> (<<"codigo_sku", "PRD-001">> :> Exc),
      products |-> (<<"code", "PRD-001">> :>
                      DictResp([data |-> <<[nome |-> "Produto 1"]>>])),
      servicos |-> (<<"codigo", "SVC-001">> :>
                      ListResp(<<[nome |-> "Consultoria"]>>)) ]

\* PRD-001 and SVC-001 are found in bare lists and under other keys.
CatalogoLista ==
    [ produto  |-> (<<"codigo_sku", "PRD-001">> :>
                      DictResp([data |-> <<[nome |-> "Produto 0"],
                                           [identificador |-> "prod-1"]>>])),
      products |-> <<>>,
      servicos |-> (<<"codigo", "SVC-001">> :> ListResp(<<[id |-> "serv-1"]>>)) ]

\* A person registered with the document of the customer of BaseRow and
\* another name.
Homonimo ==
    [id |-> "cli-outro", nome |-> "Carlos Souza", cpf |-> <<"1","2","3","4","5","6","7","8","9","0","9">>]

\* The search by document answers the person of the other name.
MundoHomonimo ==
    [ get  |-> GetsDe(Catalogo, <<"documento", "12345678909">> :> ListResp(<<Homonimo>>)),
      post |-> Posts(Sempre(DictResp([id |-> "cli-novo"])),
                     Sempre(DictResp([id |-> "venda-4"]))),
      id_conta_financeira |-> Null ]

\* The customer of BaseRow is found by the search by cpf; the creation of a
\* customer answers without an identifier.
MundoCriacaoSemId ==
    [ get  |-> GetsDe(CatalogoLista, <<"cpf", "12345678909">> :>
                                       DictResp([data |-> <<ClienteAna>>])),
      post |-> Posts(Sempre(DictResp([nome |-> "Empresa XPTO Ltda", id |-> ""])),
                     Sempre(DictResp([sale_id |-> "venda-5"]))),
      id_conta_financeira |-> Null ]

\* The catalogue answers records without identifier.
MundoCatalogoSemId ==
    [ get  |-> GetsDe(CatalogoSemId, <<"documento", "12345678909">> :>
                                       DictResp([data |-> <<ClienteAna>>])),
      post |-> Posts(Sempre(DictResp([id |-> "cli-novo"])),
                     Sempre(DictResp([id |-> "venda-6"]))),
      id_conta_financeira |-> Null ]

\* A company that buys a product.
RowJuridicaProduto == RowJuridica \cup RowProduto

\* Orders of up to MaxRows rows in all, of a registered person and of a
\* company that is not registered, for each service.
CenariosRemoto ==
    { Cenario(Sheet(HeaderEN, rows), w, TokenValido) :
        rows \in SeqsUpTo({ Row(PedidoIds[1], RowOk),
                            Row(PedidoIds[1], RowJuridicaProduto),
                            Row(PedidoIds[2], RowOk) },
                          MaxRows) \ {<<>>},
        w \in {MundoHomonimo, MundoCriacaoSemId, MundoCatalogoSemId} }

\* The first search of each kind fails: PRD-001 is answered by the second
\* endpoint, the customer of BaseRow by the search by cpf; the search of
\* services has no fallback.
MundoBuscasFalham ==
    [ get  |-> GetsDe([ produto  |-> (<<"codigo_sku", "PRD-001">> :> Exc),
                        products |-> (<<"code", "PRD-001">> :>
                                        ListResp(<<[id |-> "prod-2"]>>)),
                        servicos |-> (<<"codigo", "SVC-001">> :> Exc) ],
                      (<<"documento", "12345678909">> :> Exc)
                      @@ (<<"cpf", "12345678909">> :>
                            DictResp([data |-> <<ClienteAna>>]))),
      post |-> Posts(Sempre(DictResp([id |-> "cli-novo"])),
                     Sempre(DictResp([id |-> "venda-7"]))),
      id_conta_financeira |-> Null ]

\* Every search of the customer fails, and so do both searches of PRD-001;
\* the creation of the customer works.
MundoSemBuscas ==
    [ get  |-> GetsDe([ produto  |-> (<<"codigo_sku", "PRD-001">> :> Exc),
                        products |-> (<<"code", "PRD-001">> :> Exc),
                        servicos |-> (<<"codigo", "SVC-001">> :>
                                        DictResp([itens |-> <<[id |-> "serv-1"]>>])) ],
                      (<<"documento", "12345678909">> :> Exc)
                      @@ (<<"cpf", "12345678909">> :> Exc)
                      @@ (<<"cnpj", "12345678909">> :> Exc)),
      post |-> Posts(Sempre(DictResp([id |-> "cli-novo"])),
                     Sempre(DictResp([id |-> "venda-8"]))),
      id_conta_financeira |-> Null ]

\* The customer of BaseRow is registered in a record that carries no
\* identifier.
MundoClienteSemId ==
    [ get  |-> GetsDe(Catalogo,
                      <<"documento", "12345678909">> :>
                          DictResp([data |-> <<[nome |-> "Ana Paula Ribeiro",
                                                cpf |-> <<"1","2","3","4","5","6","7","8","9","0","9">>]>>])),
      post |-> Posts(Sempre(DictResp([id |-> "cli-novo"])),
                     Sempre(DictResp([id |-> "venda-9"]))),
      id_conta_financeira |-> Null ]

\* Orders of up to MaxRows rows in all, of a service and of a product, for
\* services whose searches fail.
CenariosFalhas ==
    { Cenario(Sheet(HeaderEN, rows), w, TokenValido) :
        rows \in SeqsUpTo({ Row(PedidoIds[1], RowOk),
                            Row(PedidoIds[1], RowProduto),
                            Row(PedidoIds[2], RowProduto) },
                          MaxRows) \ {<<>>},
        w \in {MundoBuscasFalham, MundoSemBuscas, MundoSemId, MundoClienteSemId} }

Cenarios ==
    CenariosLimites \cup CenariosLoteInteiro \cup CenariosLote
    \cup CenariosCampos \cup CenariosTotais \cup CenariosMetodos
    \cup CenariosParcelas \cup CenariosDatas \cup CenariosRemoto
    \cup CenariosModelo \cup CenariosFalhas

\* The state after the upload of a sheet, before processar_upload runs.
InitDe(cenarios) ==
    /\ \E c \in cenarios :
          /\ file = c.file
          /\ world = c.world
          /\ token = c.token
    /\ pc = "token"
    /\ df = <<>>
    /\ pedidos = <<>>
    /\ npedido = 0
    /\ vendas = <<>>
    /\ erros = <<>>
    /\ nvenda = 0
    /\ resultados = <<>>
    /\ calls = <<>>
    /\ retorno = None
    /\ TokensParados

Init == InitDe(Cenarios)

Spec == Init /\ [][Next]_vars

\* The runs of each family of sheets.
InitLimites == InitDe(CenariosLimites \cup CenariosLoteInteiro)

SpecLimites == InitLimites /\ [][Next]_vars

InitLote == InitDe(CenariosLote)

SpecLote == InitLote /\ [][Next]_vars

InitCampos == InitDe(CenariosCampos)

SpecCampos == InitCampos /\ [][Next]_vars

InitTotais == InitDe(CenariosTotais)

SpecTotais == InitTotais /\ [][Next]_vars

InitMetodos == InitDe(CenariosMetodos)

SpecMetodos == InitMetodos /\ [][Next]_vars

InitParcelas == InitDe(CenariosParcelas)

SpecParcelas == InitParcelas /\ [][Next]_vars

InitDatas == InitDe(CenariosDatas)

SpecDatas == InitDatas /\ [][Next]_vars

InitRemoto == InitDe(CenariosRemoto)

SpecRemoto == InitRemoto /\ [][Next]_vars

InitModelo == InitDe(CenariosModelo)

SpecModelo == InitModelo /\ [][Next]_vars

InitFalhas == InitDe(CenariosFalhas)

SpecFalhas == InitFalhas /\ [][Next]_vars

\* processar_upload before its first step, while the token operations run.
UploadParado ==
    /\ file = Sheet(HeaderPT, <<>>)
    /\ world = MundoOk
    /\ token = TokenAusente
    /\ pc = "token"
    /\ df = <<>>
    /\ pedidos = <<>>
    /\ npedido = 0
    /\ vendas = <<>>
    /\ erros = <<>>
    /\ nvenda = 0
    /\ resultados = <<>>
    /\ calls = <<>>
    /\ retorno = None

\* The session and the table as a run may find them: with or without the
\* company id, with or without the pair 0.
InitTokens ==
    /\ UploadParado
    /\ \E expires_in \in Validades :
          /\ provedor = ProvedorInicial(expires_in)
          /\ \E c \in {Null, Cid}, t \in {None, LinhaInicial(expires_in)} :
                session_state = [SessaoVazia EXCEPT !.company_id = c, !.tokens = t]
          /\ tabela \in {None, LinhaInicial(expires_in)}
    /\ relogio = 0
    /\ enviados = <<>>
    /\ saida = SemSaida

SpecTokens == InitTokens /\ [][NextTokens]_vars

\* The lifetimes line 73 is applied to, around its two thresholds.
Duracoes == {0, 30, 59, 60, 89, 90, 120, 150, 151, 180, 3600}

\* A pair issued now, not yet stored.
InitValidade ==
    /\ UploadParado
    /\ \E expires_in \in Duracoes, t \in {0, 30} :
          /\ provedor = [ProvedorInicial(expires_in) EXCEPT !.emitido = t]
          /\ relogio = t
    /\ session_state = SessaoVazia
    /\ tabela = None
    /\ enviados = <<>>
    /\ saida = SemSaida

SpecValidade == InitValidade /\ [][NextValidade]_vars

-----------------------------------------------------------------------------
(* Properties                                                              *)

\* What the sheet holds, before any conversion.

\* The column of the sheet that parse_planilha renames to campo, or 0.
ColunaDe(campo) ==
    IF \E j \in DOMAIN file.header : RenameColumn(file.header[j]) = campo
    THEN CHOOSE j \in DOMAIN file.header : RenameColumn(file.header[j]) = campo
    ELSE 0

ColunasFaltando == Range(Obrigatorias) \ Range(RenameColumns(file.header))

\* The distinct order ids of the sheet.
PedidosDaPlanilha ==
    IF ColunaDe("pedido_id") = 0 THEN {}
    ELSE {Strip(PyStr(file.rows[i][ColunaDe("pedido_id")]).s) : i \in DOMAIN file.rows}

\* The payment methods written in the sheet.
MetodosDaPlanilha ==
    IF ColunaDe("payment_method") = 0 THEN {}
    ELSE {PyStr(file.rows[i][ColunaDe("payment_method")]).s : i \in DOMAIN file.rows}

\* The errors that stop the whole batch.
ErrosDeLote ==
    { "RuntimeError: Token de acesso invalido ou expirado",
      "Colunas obrigatorias ausentes",
      "Limite de linhas excedido",
      "Limite de pedidos excedido" }

\* The sheet passes every check made on the batch as a whole.
PassaLote ==
    /\ HasValidToken
    /\ ColunasFaltando = {}
    /\ Len(file.rows) <= MAX_ROWS
    /\ Cardinality(PedidosDaPlanilha) <= MAX_ORDERS

\* What _montar_por_pedido has done so far.

\* The order ids the loop has gone through.
Montados == {pedidos[j] : j \in 1..npedido}

VendasDe(pid) == {i \in DOMAIN vendas : vendas[i].header.pedido_id = pid}

ErrosDe(pid) == {i \in DOMAIN erros : erros[i].pedido_id = Join(pid)}

\* The first row of the order pid in the frame (and in the sheet).
PrimeiraLinha(pid) ==
    CHOOSE i \in DOMAIN df :
        /\ df[i]["pedido_id"].s = pid
        /\ \A j \in 1..(i - 1) : df[j]["pedido_id"].s # pid

\* The two sides of the totals of the order pid, from the rows of the frame.
LadoItens(pid) ==
    LET b == Bloco(df, pid) IN
    Round2(SeqSum([i \in DOMAIN b |->
                      (b[i]["item_quantidade"].v * b[i]["item_unit_price"].v) \div 1000])
           + b[1]["shipping_cost"].v)

LadoParcelas(pid) ==
    LET b == Bloco(df, pid) IN
    Round2(SeqSum([i \in DOMAIN b |-> b[i]["payment_amount"].v]))

\* The sheet gives a declared total for the order pid.
DeclaradoInformado(pid) ==
    /\ ColunaDe("total_declarado") # 0
    /\ file.rows[PrimeiraLinha(pid)][ColunaDe("total_declarado")] \notin {Blank, Txt(<<>>)}

TotalDeclarado(pid) == df[PrimeiraLinha(pid)]["total_declarado"].v

\* The declared total of the order pid is given and is not the computed one.
Divergente(pid) ==
    DeclaradoInformado(pid) /\ Round2(TotalDeclarado(pid)) # LadoItens(pid)

\* The error record of the order pid names the declared and the computed total.
NomeiaOsDoisTotais(pid) ==
    \E e \in ErrosDe(pid) :
        /\ erros[e].erro.kind = "total_declarado difere da soma"
        /\ erros[e].erro.arg = [declarado |-> TotalDeclarado(pid), calc |-> LadoItens(pid)]

\* The checks made before the totals pass for the order pid.
ChecagensPassam(pid) ==
    LET b == Bloco(df, pid) IN
    /\ ErroCabecalho(Cabecalho(pid, b[1])).ok
    /\ \A i \in DOMAIN b : ErroItem(Item(b[i])).ok /\ ErroParcela(Parcela(b[i])).ok

\* The results of normalising the methods of the installments of an aggregate.
Canonicos(venda) ==
    {NormalizePaymentMethod(venda.payments[k].metodo) : k \in DOMAIN venda.payments}

\* The i-th turn of the submit loop posted a sale.
PostouVenda(i) ==
    \E k \in DOMAIN calls[i] :
        calls[i][k].method = "POST" /\ calls[i][k].path = SALES_PATH

\* The i-th turn of the submit loop only searched for products and services.
SoBuscouItens(i) ==
    \A k \in DOMAIN calls[i] :
        /\ calls[i][k].method = "GET"
        /\ calls[i][k].path \in {"/v1/produto", "/v1/products", "/v1/servicos"}

\* Every value _normalize_payment_method is or may be called with in this
\* run: the methods of the aggregates and the methods written in the sheet.
Brutos ==
    MetodosDaPlanilha
    \cup UNION { {vendas[i].payments[k].metodo : k \in DOMAIN vendas[i].payments} :
                 i \in DOMAIN vendas }

\* The token of raw is neither a canonical name nor an alias key.
NaoMapeavel(raw) ==
    Join(NormalizeToken(raw)) \notin ALLOWED_PAYMENT_METHODS \cup DOMAIN PAYMENT_ALIASES

\* The token of raw starts neither with PIX nor with BOLETO.
SemPrefixo(raw) ==
    /\ ~StartsWith(NormalizeToken(raw), <<"P","I","X">>)
    /\ ~StartsWith(NormalizeToken(raw), <<"B","O","L","E","T","O">>)

\* C1: every aggregate emitted by _montar_por_pedido has
\* round(sum of quantidade * unit_price + shipping_cost, 2) equal to
\* round(sum of its installments, 2); an order whose two sides differ by 0.01
\* or more is not emitted and has one error record.
C1_TotaisBatem ==
    /\ \A i \in DOMAIN vendas :
          Round2(SeqSum([k \in DOMAIN vendas[i].itens |->
                            (vendas[i].itens[k].quantidade
                               * vendas[i].itens[k].unit_price) \div 1000])
                 + vendas[i].header.shipping_cost)
          = Round2(SeqSum([k \in DOMAIN vendas[i].payments |->
                              vendas[i].payments[k].valor]))
    /\ \A pid \in Montados :
          Abs(LadoItens(pid) - LadoParcelas(pid)) >= 10
          => VendasDe(pid) = {} /\ Cardinality(ErrosDe(pid)) = 1

\* C1, reached: an order whose sides differ by exactly 0.01 has been refused
\* for its totals.
C1_DiferencaDeUmCentavo ==
    \E pid \in Montados :
        /\ Abs(LadoItens(pid) - LadoParcelas(pid)) = 10
        /\ VendasDe(pid) = {}
        /\ \E e \in ErrosDe(pid) :
              erros[e].erro.kind = "Soma dos pagamentos difere do total calculado"

\* C2: processar_upload appends exactly one result row (criada or erro) for
\* each aggregate, in order; the row and the requests of an aggregate are
\* those of that aggregate alone, whatever happened to the others; an order
\* that fails never makes processar_upload raise.
C2_UmResultadoPorVenda ==
    /\ Len(resultados) = nvenda
    /\ Len(calls) = nvenda
    /\ nvenda <= Len(vendas)
    /\ \A i \in 1..nvenda :
          /\ resultados[i].pedido_id = Join(vendas[i].header.pedido_id)
          /\ resultados[i].status \in {"criada", "erro"}
          /\ resultados[i] = EnviarVenda(vendas[i]).res
          /\ calls[i] = EnviarVenda(vendas[i]).calls
          /\ resultados[i].status = "criada" => PostouVenda(i)
    /\ vendas # <<>> => pc # "raised"
    /\ pc = "returned" =>
          /\ nvenda = Len(vendas)
          /\ retorno.val.resultado_df = resultados
          /\ retorno.val.resumo.total_pedidos = Len(vendas)
          /\ retorno.val.resumo.sucesso + retorno.val.resumo.erros = Len(vendas)

\* C2, reached: a report in which an order that failed is followed by an
\* order that was created.
C2_FalhaSeguidaDeSucesso ==
    /\ pc = "returned"
    /\ \E i, j \in DOMAIN resultados :
          /\ i < j
          /\ resultados[i].status = "erro"
          /\ resultados[j].status = "criada"
          /\ PostouVenda(j)

\* C3: for a sheet that passes the checks made on the batch as a whole,
\* processar_upload does not raise, whatever the number of aggregates.
C3_SemExcecao == PassaLote => pc # "raised"

\* C4: for every order id gone through, _montar_por_pedido has emitted an
\* aggregate or an error record, one and not both; an order that fails does
\* not end the loop, and its error is never what processar_upload raises.
C4_UmaVendaOuUmErro ==
    /\ \A pid \in Montados :
          Cardinality(VendasDe(pid)) + Cardinality(ErrosDe(pid)) = 1
    /\ Len(vendas) + Len(erros) = npedido
    /\ (npedido > 0 /\ pc # "montando") => npedido = Len(pedidos)
    /\ pc = "raised" => \A e \in DOMAIN erros : retorno.kind # erros[e].erro.kind

\* C4, reached: the first order of the sheet was refused and the second
\* emitted.
C4_ErroSeguidoDeVenda ==
    /\ Len(pedidos) >= 2
    /\ npedido = Len(pedidos)
    /\ ErrosDe(pedidos[1]) # {}
    /\ VendasDe(pedidos[2]) # {}

\* C5: no valid token, a required column missing, more than MAX_ROWS rows and
\* more than MAX_ORDERS order ids each make processar_upload raise, and a run
\* that ends so has grouped nothing and issued no request; MAX_ROWS rows and
\* MAX_ORDERS order ids are accepted.
C5_LoteInteiro ==
    /\ (pc = "raised" /\ retorno.kind \in ErrosDeLote)
          => /\ calls = <<>>
             /\ resultados = <<>>
             /\ vendas = <<>>
             /\ erros = <<>>
             /\ npedido = 0
    /\ (~HasValidToken /\ pc # "token")
          => /\ pc = "raised"
             /\ retorno.kind = "RuntimeError: Token de acesso invalido ou expirado"
    /\ (HasValidToken /\ pc \notin {"token", "parse"})
          => LET faltando == ColunasFaltando
                 linhas == Len(file.rows)
             IN
             /\ faltando # {}
                  => /\ pc = "raised"
                     /\ retorno.kind = "Colunas obrigatorias ausentes"
             /\ (faltando = {} /\ linhas > MAX_ROWS)
                  => /\ pc = "raised"
                     /\ retorno.kind = "Limite de linhas excedido"
             /\ (faltando = {} /\ linhas <= MAX_ROWS)
                  => ~(pc = "raised" /\ retorno.kind = "Limite de linhas excedido")
             /\ (faltando = {} /\ linhas <= MAX_ROWS /\ pc # "montar")
                  => IF Cardinality(PedidosDaPlanilha) > MAX_ORDERS
                     THEN pc = "raised" /\ calls = <<>>
                     ELSE ~(pc = "raised" /\ retorno.kind = "Limite de pedidos excedido")

\* C5, reached: a sheet of exactly MAX_ROWS rows, which the limit of rows
\* lets through, is refused for its MAX_ORDERS + 1 order ids.
C5_LinhasNoLimitePedidosAcima ==
    /\ Len(file.rows) = MAX_ROWS
    /\ Cardinality(PedidosDaPlanilha) = MAX_ORDERS + 1
    /\ pc = "raised"
    /\ retorno.kind = "Limite de pedidos excedido"

\* C6 as stated: an order whose declared total, rounded, is not the computed
\* total is not emitted and has an error record that names both totals.
C6_NomeiaSempre ==
    \A pid \in Montados :
        Divergente(pid) => VendasDe(pid) = {} /\ NomeiaOsDoisTotais(pid)

\* C6, amended: an order whose declared total, rounded, is not the computed
\* total is not emitted and has exactly one error record, even when its
\* installments sum to the computed total; the record names both totals when
\* the checks of the header, the items and the installments pass.
C6_RejeitadoPeloTotal ==
    \A pid \in Montados :
        Divergente(pid)
        => /\ VendasDe(pid) = {}
           /\ Cardinality(ErrosDe(pid)) = 1
           /\ ChecagensPassam(pid) => NomeiaOsDoisTotais(pid)

\* C6, reached: an order whose installments sum to the computed total was
\* refused for its declared total.
C6_SomaCertaTotalErrado ==
    \E pid \in Montados :
        /\ Divergente(pid)
        /\ LadoParcelas(pid) = LadoItens(pid)
        /\ VendasDe(pid) = {}
        /\ NomeiaOsDoisTotais(pid)

\* C7: every aggregate emitted has at least one item and one installment;
\* its items have tipo PRODUTO or SERVICO, quantidade > 0 and unit_price >= 0;
\* its installments have valor > 0 and a due date in the form YYYY-MM-DD; its
\* cliente_tipo is FISICA with a document of 11 characters, JURIDICA with one
\* of 14, or ESTRANGEIRA.
C7_VendaBemFormada ==
    \A i \in DOMAIN vendas :
        /\ Len(vendas[i].itens) >= 1
        /\ Len(vendas[i].payments) >= 1
        /\ \A k \in DOMAIN vendas[i].itens :
              /\ vendas[i].itens[k].tipo \in {"PRODUTO", "SERVICO"}
              /\ vendas[i].itens[k].quantidade > 0
              /\ vendas[i].itens[k].unit_price >= 0
        /\ \A k \in DOMAIN vendas[i].payments :
              /\ vendas[i].payments[k].valor > 0
              /\ vendas[i].payments[k].vencimento.k = "iso"
        /\ vendas[i].header.cliente_tipo \in {"FISICA", "JURIDICA", "ESTRANGEIRA"}
        /\ vendas[i].header.cliente_tipo = "FISICA"
              => Len(vendas[i].header.cliente_documento) = 11
        /\ vendas[i].header.cliente_tipo = "JURIDICA"
              => Len(vendas[i].header.cliente_documento) = 14

\* C7, reached: an aggregate of two items for a company, whose document was
\* written with punctuation.
C7_JuridicaComDoisItens ==
    \E i \in DOMAIN vendas :
        /\ vendas[i].header.cliente_tipo = "JURIDICA"
        /\ vendas[i].header.cliente_documento = "12345678000199"
        /\ Len(vendas[i].itens) = 2

\* C8 as stated: in every aggregate emitted by _montar_por_pedido all the
\* installments have one canonical payment method.
C8_UmMetodoPorVenda ==
    \A i \in DOMAIN vendas :
        /\ Cardinality(Canonicos(vendas[i])) = 1
        /\ \A r \in Canonicos(vendas[i]) : r.ok

\* C8, amended: an order whose installments have different canonical methods
\* is emitted by _montar_por_pedido and refused by _resolver_itens_e_payload:
\* its result row is an error, and no request other than the searches for its
\* items is issued for it; every sale posted has the one canonical method of
\* all the installments of its order.
C8_RejeitadaNoPayload ==
    \A i \in 1..nvenda :
        /\ Cardinality(Canonicos(vendas[i])) > 1
              => resultados[i].status = "erro" /\ SoBuscouItens(i)
        /\ \A k \in DOMAIN calls[i] :
              (calls[i][k].method = "POST" /\ calls[i][k].path = SALES_PATH)
              => /\ calls[i][k].arg.condicao_pagamento.tipo_pagamento
                       \in ALLOWED_PAYMENT_METHODS
                 /\ Canonicos(vendas[i])
                       = {Return(calls[i][k].arg.condicao_pagamento.tipo_pagamento)}

\* C8, reached: an aggregate with two canonical methods was refused by the
\* payload builder after the searches for its items.
C8_MistaRecusadaDepoisDasBuscas ==
    \E i \in 1..nvenda :
        /\ Cardinality(Canonicos(vendas[i])) > 1
        /\ resultados[i].status = "erro"
        /\ resultados[i].mensagem.kind = "A venda contem multiplas formas de pagamento"
        /\ calls[i] # <<>>
        /\ SoBuscouItens(i)

\* C9 as stated: _normalize_payment_method fails, naming the raw value, for
\* every raw value whose token is neither a canonical name nor an alias key;
\* an order with such a value has an error row and no sale is posted for it.
C9_FalhaForaDasTabelas ==
    /\ \A raw \in Brutos :
          NaoMapeavel(raw)
          => NormalizePaymentMethod(raw)
               = Raise("Forma de pagamento invalida", Join(raw))
    /\ \A i \in 1..nvenda :
          (\E k \in DOMAIN vendas[i].payments :
              NaoMapeavel(vendas[i].payments[k].metodo))
          => resultados[i].status = "erro" /\ ~PostouVenda(i)

\* C9, amended: _normalize_payment_method fails, naming the raw value, for
\* every raw value whose token is neither a canonical name nor an alias key
\* and starts neither with PIX nor with BOLETO; an order with such a value has
\* an error row and no sale is posted for it.
C9_FalhaForaDasTabelasEPrefixos ==
    /\ \A raw \in Brutos :
          (NaoMapeavel(raw) /\ SemPrefixo(raw))
          => NormalizePaymentMethod(raw)
               = Raise("Forma de pagamento invalida", Join(raw))
    /\ \A i \in 1..nvenda :
          (\E k \in DOMAIN vendas[i].payments :
              /\ NaoMapeavel(vendas[i].payments[k].metodo)
              /\ SemPrefixo(vendas[i].payments[k].metodo))
          => /\ resultados[i].status = "erro"
             /\ resultados[i].mensagem.kind
                   \in {"Forma de pagamento invalida", "Produto nao encontrado",
                        "Servico nao encontrado"}
             /\ ~PostouVenda(i)

\* C9, reached: the order paid with FIADO has an error row that names FIADO,
\* and no sale was posted for it.
C9_FiadoRecusado ==
    \E i \in 1..nvenda :
        /\ resultados[i].status = "erro"
        /\ resultados[i].mensagem.kind = "Forma de pagamento invalida"
        /\ resultados[i].mensagem.arg = "FIADO"
        /\ ~PostouVenda(i)

\* C10: whenever _normalize_payment_method returns v, v is a canonical name
\* and normalising v returns v; a canonical name written in any of the ways of
\* Grafias (case, "-" or " " for "_", blanks around, diacritics) returns
\* itself, and an alias key written in any of them returns the value listed
\* for it; the method of every sale posted is a canonical name.
C10_Idempotente ==
    /\ \A k \in DOMAIN MethodText : Join(MethodText[k]) = k
    /\ ALLOWED_PAYMENT_METHODS \cup DOMAIN PAYMENT_ALIASES = DOMAIN MethodText
    /\ \A raw \in Brutos :
          /\ NormalizePaymentMethod(raw).ok
                => /\ NormalizePaymentMethod(raw).val \in ALLOWED_PAYMENT_METHODS
                   /\ NormalizePaymentMethod(MethodText[NormalizePaymentMethod(raw).val])
                         = NormalizePaymentMethod(raw)
          /\ \A k \in DOMAIN MethodText, g \in Grafias :
                raw = Grafia(MethodText[k], g)
                => /\ k \in ALLOWED_PAYMENT_METHODS
                        => NormalizePaymentMethod(raw) = Return(k)
                   /\ k \in DOMAIN PAYMENT_ALIASES
                        => NormalizePaymentMethod(raw) = Return(PAYMENT_ALIASES[k])
    /\ \A i \in 1..nvenda :
          \A k \in DOMAIN calls[i] :
              (calls[i][k].method = "POST" /\ calls[i][k].path = SALES_PATH)
              => calls[i][k].arg.condicao_pagamento.tipo_pagamento
                    \in ALLOWED_PAYMENT_METHODS

\* C10, reached: a sale was posted as BOLETO_BANCARIO for a sheet that writes
\* the alias BOLETO_CAIXA in lower case with diacritics.
C10_BoletoCaixaAcentuado ==
    /\ Grafia(MethodText["BOLETO_CAIXA"], "acentos") \in MetodosDaPlanilha
    /\ \E i \in 1..nvenda :
          /\ resultados[i].status = "criada"
          /\ \E k \in DOMAIN calls[i] :
                /\ calls[i][k].method = "POST"
                /\ calls[i][k].path = SALES_PATH
                /\ calls[i][k].arg.condicao_pagamento.tipo_pagamento = "BOLETO_BANCARIO"


\* The sale posted by the i-th turn of the submit loop (when it posted one).
VendaPostada(i) ==
    calls[i][CHOOSE k \in DOMAIN calls[i] :
                calls[i][k].method = "POST" /\ calls[i][k].path = SALES_PATH].arg

\* The payment plan of an aggregate: "À vista" for one installment, "Nx" for
\* N installments of the same amount to the cent, and otherwise the days
\* from the sale to each due date, none below 0.
OpcaoDeReferencia(venda) ==
    LET p == venda.payments IN
    IF Len(p) = 1 THEN "À vista"
    ELSE IF \A k \in DOMAIN p : Round2(p[k].valor) = Round2(p[1].valor)
      THEN Join(TextOfNat(Len(p))) \o "x"
    ELSE JoinComma([k \in DOMAIN p |->
             TextOfNat(Max(0, p[k].vencimento.d - venda.header.sale_date.d))])

\* C11: the opcao_condicao_pagamento of every sale posted is the payment plan
\* of reference of its order: "À vista" for one installment, "Nx" for N >= 2
\* installments equal to the cent, the comma-joined days to each due date
\* for N >= 2 installments that are not all equal.
C11_IgualAReferencia ==
    \A i \in 1..nvenda :
        PostouVenda(i)
        => VendaPostada(i).condicao_pagamento.opcao_condicao_pagamento
             = OpcaoDeReferencia(vendas[i])

\* C12: the numero of every sale posted is the integer written by the digits
\* of the pedido_id of its order (1002 for PED-1002); an order whose
\* pedido_id has no digit has an error row and no sale is posted for it.
C12_NumeroDosDigitos ==
    \A i \in 1..nvenda :
        LET pid == vendas[i].header.pedido_id IN
        /\ (\A k \in DOMAIN pid : ~IsDigit(pid[k]))
              => resultados[i].status = "erro" /\ ~PostouVenda(i)
        /\ PostouVenda(i)
              => /\ \E k \in DOMAIN pid : IsDigit(pid[k])
                 /\ VendaPostada(i).numero = IntOfDigits(SelectSeq(pid, IsDigit))
        /\ (PostouVenda(i) /\ pid = <<"P","E","D","-","1","0","0","2">>)
              => VendaPostada(i).numero = 1002

\* C12, reached: in one batch PED-ABC was refused for its number, with no
\* sale posted, and the sale of PED-1002 was posted with numero 1002.
C12_PedAbcRecusadoPed1002Enviado ==
    \E i, j \in 1..nvenda :
        /\ vendas[i].header.pedido_id = <<"P","E","D","-","A","B","C">>
        /\ resultados[i].status = "erro"
        /\ resultados[i].mensagem.kind = "numero (inteiro) e obrigatorio"
        /\ ~PostouVenda(i)
        /\ vendas[j].header.pedido_id = <<"P","E","D","-","1","0","0","2">>
        /\ PostouVenda(j)
        /\ VendaPostada(j).numero = 1002

\* C13: the order 1002 of two rows that buys 2 units at 100.00 and pays two
\* installments of 200.00, without freight, is refused because the sum of its
\* installments is not its computed total; no aggregate is emitted for it.
C13_Pedido1002Recusado ==
    (/\ Len(file.rows) = 2
     /\ file.rows[1] = Sheet(HeaderEN, <<Row(Pedido1002, RowBoleto1002(40))>>).rows[1]
     /\ file.rows[2] = Sheet(HeaderEN, <<Row(Pedido1002, RowBoleto1002(70))>>).rows[1]
     /\ Pedido1002 \in Montados)
    => /\ VendasDe(Pedido1002) = {}
       /\ \E e \in ErrosDe(Pedido1002) :
             erros[e].erro.kind = "Soma dos pagamentos difere do total calculado"


\* C14: the conversion of the numeric columns never fails: parse_planilha is
\* not ended by a number that cannot be read.
C14_NumeroIlegivelViraZero ==
    ~(pc = "raised" /\ retorno.kind = "ValueError: could not convert string to float")


\* The rows of the order pid, in the sheet as in the frame.
LinhasDe(pid) == {i \in DOMAIN df : df[i]["pedido_id"].s = pid}

\* The sale date of the first row of the order pid, or the due date of one
\* of its rows, is not a date in the sheet.
DataIlegivel(pid) ==
    LET venda      == ColunaDe("sale_date")
        vencimento == ColunaDe("payment_due_date")
    IN  \/ file.rows[PrimeiraLinha(pid)][venda].k # "date"
        \/ \E i \in LinhasDe(pid) : file.rows[i][vencimento].k # "date"

\* C15: a date that cannot be read is not a date in the frame of
\* parse_planilha either (it is the empty value), and the row is kept; an
\* order whose sale date (first row) or one of whose due dates cannot be read
\* has one error record, no aggregate and so no request.
C15_DataIlegivelRecusada ==
    /\ pc \notin {"token", "parse", "raised"}
          => LET col == [c \in {"sale_date", "payment_due_date"} |-> ColunaDe(c)] IN
             /\ Len(df) = Len(file.rows)
             /\ \A i \in DOMAIN df, c \in DOMAIN col :
                   IF file.rows[i][col[c]].k = "date"
                   THEN df[i][c] = Iso(file.rows[i][col[c]].d)
                   ELSE df[i][c] = Blank
    /\ \A pid \in Montados :
          DataIlegivel(pid)
          => /\ VendasDe(pid) = {}
             /\ Cardinality(ErrosDe(pid)) = 1
             /\ \A i \in 1..nvenda : resultados[i].pedido_id # Join(pid)

\* C15, reached: the first order was refused for the due date of its row and
\* the second order, whose dates are read, has its result row.
C15_VencimentoIlegivelRecusado ==
    /\ Len(pedidos) = 2
    /\ nvenda = 1
    /\ file.rows[1][ColunaDe("payment_due_date")].k # "date"
    /\ \E e \in ErrosDe(pedidos[1]) :
          /\ erros[e].erro.kind = "ValueError: time data does not match format"
          /\ erros[e].erro.arg = "payment_due_date"
    /\ VendasDe(pedidos[1]) = {}
    /\ resultados[1].pedido_id = Join(pedidos[2])


\* The person records the answers of the service to the searches by the
\* document doc carry, under any of the three parameters.
PessoasComDocumento(doc) ==
    { p \in UNION { Range(PessoasDe(ApiGet("/v1/pessoas", name, doc),
                                    <<"data", "items", "itens">>)) :
                    name \in {"documento", "cpf", "cnpj"} } :
        DocDe(p) = doc }

\* The identifier _resolve_or_create_customer reads in a record, or Null.
IdDePessoa(p) ==
    FirstTruthy(p, <<"id", "uuid", "identificador", "identificador_legado">>)

\* C16: a record of the service is used as the customer of an order only if
\* its document and its name are those of the order: no sale is posted with
\* the identifier of a record of the same document and another name.
C16_MesmoDocumentoEMesmoNome ==
    \A i \in 1..nvenda :
        LET h == vendas[i].header IN
        PostouVenda(i)
        => \A p \in PessoasComDocumento(h.cliente_documento) :
              IdDePessoa(p) = VendaPostada(i).id_cliente
              => Get(p, "nome", Null) = h.cliente_nome


\* The identifiers an order of document doc may use: those of the records
\* the searches answer for doc and that of the answer to the creation.
IdsDeCliente(doc) ==
    LET criada == ApiPost("/v1/pessoa", doc) IN
    ({ IdDePessoa(p) : p \in PessoasComDocumento(doc) }
       \cup (IF criada.k = "dict" THEN {IdDePessoa(criada.v)} ELSE {}))
    \ {Null, ""}

\* The i-th turn of the submit loop asked for the creation of a customer.
CriouCliente(i) ==
    \E k \in DOMAIN calls[i] :
        calls[i][k].method = "POST" /\ calls[i][k].path = "/v1/pessoa"

\* C17: the id_cliente of every sale posted is a non-empty identifier of a
\* record found by the search or of the answer to the creation; an order
\* with no record found and no identifier in the answer to the creation has
\* a result of status erro and no sale posted, and the loop goes on to the
\* orders after it.
C17_IdClienteUtilizavel ==
    /\ \A i \in 1..nvenda :
          LET doc == vendas[i].header.cliente_documento IN
          /\ PostouVenda(i)
             => /\ VendaPostada(i).id_cliente \notin {"", Null, "None"}
                /\ VendaPostada(i).id_cliente \in IdsDeCliente(doc)
          /\ IdsDeCliente(doc) = {}
             => /\ resultados[i].status = "erro"
                /\ ~PostouVenda(i)
                /\ pc # "raised"
    /\ pc = "returned" => Len(resultados) = Len(vendas)

\* The creation of the customer of the first order answers no identifier and
\* the order fails; the sale of the second order is created.
C17_CriacaoSemIdDepoisVenda ==
    /\ nvenda = 2
    /\ CriouCliente(1)
    /\ resultados[1].status = "erro"
    /\ resultados[1].mensagem.kind = "Nao foi possivel obter o ID do cliente"
    /\ ~PostouVenda(1)
    /\ resultados[2].status = "criada"
    /\ PostouVenda(2)
    /\ VendaPostada(2).id_cliente = "cli-ana"


\* The records an answer of the catalogue carries, in a list under itens,
\* data or items, or in a bare list.
RegistrosDe(resp) ==
    IF resp.k = "dict" THEN Range(FirstList(resp.v, <<"itens", "data", "items">>))
    ELSE IF resp.k = "list" THEN Range(resp.l)
    ELSE {}

\* Every identifier a record of an answer of the catalogue carries.
IdsDoCatalogo ==
    LET registros ==
          UNION { UNION { RegistrosDe(world.get[path][q]) :
                          q \in DOMAIN world.get[path] } :
                  path \in {"/v1/produto", "/v1/products", "/v1/servicos"} }
    IN  UNION { { r[f] : f \in DOMAIN r
                           \cap {"id", "identificador", "identificador_legado"} } :
                r \in registros }

\* C18: the id of every item of a sale posted is an identifier carried by a
\* record of an answer of the catalogue: a record found without identifier
\* is an item not found.
C18_IdDeUmRegistro ==
    \A i \in 1..nvenda :
        PostouVenda(i)
        => \A k \in DOMAIN VendaPostada(i).itens :
              VendaPostada(i).itens[k].id \in IdsDoCatalogo


\* The sale POSTs of the i-th turn of the submit loop.
PostsDeVenda(i) ==
    {k \in DOMAIN calls[i] :
        calls[i][k].method = "POST" /\ calls[i][k].path = SALES_PATH}

\* C19: the submit loop takes one turn per aggregate, in order, and no two
\* aggregates are of the same order; a turn issues at most one sale POST,
\* and a sale POST the service refuses leaves a result of status erro with
\* the message of the failure, after that one POST.
C19_SemNovaTentativa ==
    /\ Len(calls) = nvenda
    /\ Len(resultados) = nvenda
    /\ nvenda <= Len(vendas)
    /\ \A i, j \in DOMAIN vendas :
          vendas[i].header.pedido_id = vendas[j].header.pedido_id => i = j
    /\ \A i \in 1..nvenda :
          /\ resultados[i].pedido_id = Join(vendas[i].header.pedido_id)
          /\ Cardinality(PostsDeVenda(i)) <= 1
          /\ PostsDeVenda(i) # {} /\ ApiPost(SALES_PATH, resultados[i].pedido_id).k = "exc"
             => /\ resultados[i].status = "erro"
                /\ resultados[i].mensagem = Raise("HTTPError", SALES_PATH)
                /\ calls[i][Len(calls[i])].path = SALES_PATH

\* The sale of an order was refused by the service once and the loop went on
\* to the next order.
C19_RecusadaUmaVez ==
    \E i \in 1..nvenda :
        /\ i < nvenda
        /\ Cardinality(PostsDeVenda(i)) = 1
        /\ resultados[i].status = "erro"
        /\ resultados[i].mensagem = Raise("HTTPError", SALES_PATH)


\* The result rows of status st, counted one by one.
RECURSIVE Contar(_, _)
Contar(rows, st) ==
    IF rows = <<>> THEN 0
    ELSE (IF Head(rows).status = st THEN 1 ELSE 0) + Contar(Tail(rows), st)

\* C20: in the report returned, total_pedidos is the number of aggregates,
\* sucesso the number of result rows of status criada, erros the number of
\* status erro, and sucesso + erros = total_pedidos.
C20_ContagensDoResumo ==
    pc = "returned"
    => LET resumo == retorno.val.resumo
           linhas == retorno.val.resultado_df
       IN  /\ resumo.total_pedidos = Len(vendas)
           /\ resumo.sucesso = Contar(linhas, "criada")
           /\ resumo.erros = Contar(linhas, "erro")
           /\ resumo.sucesso + resumo.erros = resumo.total_pedidos

\* A report of a batch of two orders, one with its sale created and one
\* with its sale refused.
C20_ResumoDeUmaCriadaEUmErro ==
    /\ pc = "returned"
    /\ Len(vendas) = 2
    /\ retorno.val.resumo.sucesso = 1
    /\ retorno.val.resumo.erros = 1
    /\ retorno.val.resumo.total_pedidos = 2


\* The note cell of the first row of the order pid is left blank or holds
\* the empty text.
NotaVazia(pid) ==
    df[PrimeiraLinha(pid)]["observacao"] \in {Blank, Txt(<<>>)}

\* C21: a sale posted carries composicao_de_valor, with frete, exactly when
\* the shipping cost of its order is above 0, and observacoes exactly when
\* the note cell of the first row of the order is not empty.
C21_OpcionaisSoQuandoInformados ==
    \A i \in 1..nvenda :
        PostouVenda(i)
        => LET h == vendas[i].header
               p == VendaPostada(i)
           IN  /\ "composicao_de_valor" \in DOMAIN p <=> h.shipping_cost > 0
               /\ "composicao_de_valor" \in DOMAIN p
                  => p.composicao_de_valor = [frete |-> h.shipping_cost]
               /\ "observacoes" \in DOMAIN p <=> ~NotaVazia(h.pedido_id)


C23_TotalEmBrancoNaoConfere ==
    \A pid \in Montados :
        ( /\ ColunaDe("total_declarado") # 0
          /\ ~DeclaradoInformado(pid)
          /\ ChecagensPassam(pid)
          /\ LadoParcelas(pid) = LadoItens(pid) )
        => VendasDe(pid) # {} /\ ErrosDe(pid) = {}


\* The k-th request of the i-th turn is a search the service fails.
BuscaFalhou(i, k) ==
    LET c == calls[i][k] IN
    /\ c.method = "GET"
    /\ ApiGet(c.path, c.arg[1], c.arg[2]).k = "exc"

\* The request c is the search of value under the parameter name at path.
Busca(c, path, name, value) ==
    /\ c # None
    /\ c.method = "GET"
    /\ c.path = path
    /\ c.arg = <<name, value>>

\* The i-th turn issued that search.
Pediu(i, path, name, value) ==
    \E k \in DOMAIN calls[i] : Busca(calls[i][k], path, name, value)

\* The request that follows the k-th of the i-th turn is the next strategy:
\* the second endpoint of products, the next parameter of the search of
\* customers, the creation of the customer after the last search.
ProximaEstrategia(i, k) ==
    LET c == calls[i][k]
        n == IF k < Len(calls[i]) THEN calls[i][k + 1] ELSE None
    IN  IF c.path = "/v1/produto"
          THEN Busca(n, "/v1/products", "code", c.arg[2])
        ELSE IF c.path = "/v1/pessoas" /\ c.arg[1] = "documento"
          THEN Busca(n, "/v1/pessoas", "cpf", c.arg[2])
        ELSE IF c.path = "/v1/pessoas" /\ c.arg[1] = "cpf"
          THEN Busca(n, "/v1/pessoas", "cnpj", c.arg[2])
        ELSE IF c.path = "/v1/pessoas" /\ c.arg[1] = "cnpj"
          THEN /\ n # None
               /\ n.method = "POST"
               /\ n.path = "/v1/pessoa"
        ELSE TRUE

\* Every search of the code of an item, or of the customer, was made in the
\* i-th turn before it ended with the error e; for the customer, the
\* creation too.
Esgotadas(i, e) ==
    LET doc == vendas[i].header.cliente_documento IN
    /\ e.kind = "Produto nao encontrado"
       => /\ Pediu(i, "/v1/produto", "codigo_sku", e.arg)
          /\ Pediu(i, "/v1/products", "code", e.arg)
    /\ e.kind = "Servico nao encontrado"
       => Pediu(i, "/v1/servicos", "codigo", e.arg)
    /\ e.kind = "Nao foi possivel obter o ID do cliente"
       => /\ \A name \in {"documento", "cpf", "cnpj"} :
                Pediu(i, "/v1/pessoas", name, doc)
          /\ CriouCliente(i)

\* The error of a search never is the error of the order, and the strategy
\* after a search that failed is tried.
FalhaDeBuscaEngolida(i) ==
    /\ \A k \in DOMAIN calls[i] : BuscaFalhou(i, k) => ProximaEstrategia(i, k)
    /\ resultados[i].status = "erro"
       => ~( /\ resultados[i].mensagem.kind = "HTTPError"
             /\ resultados[i].mensagem.arg \in {"/v1/produto", "/v1/products",
                                                "/v1/servicos", "/v1/pessoas"} )

\* C24 as stated: a search that fails is followed by the next strategy and
\* is not the error of the order, and an order ends with a not-found or
\* resolution error only after every strategy was tried.
C24_SoDepoisDeTodas ==
    \A i \in 1..nvenda :
        /\ FalhaDeBuscaEngolida(i)
        /\ resultados[i].status = "erro" => Esgotadas(i, resultados[i].mensagem)

\* C24, amended: a search that fails is followed by the next strategy and
\* is not the error of the order; an order ends with a not-found error only
\* after every search of the item was made, and with a resolution error
\* only after every search and the creation were made or after a search
\* answered a record of the document of the customer, which carries no
\* identifier.
C24_FalhaNaoEncerra ==
    \A i \in 1..nvenda :
        LET e   == resultados[i].mensagem
            doc == vendas[i].header.cliente_documento
        IN  /\ FalhaDeBuscaEngolida(i)
            /\ resultados[i].status = "erro"
               => \/ Esgotadas(i, e)
                  \/ /\ e.kind = "Nao foi possivel obter o ID do cliente"
                     /\ ~CriouCliente(i)
                     /\ \E p \in PessoasComDocumento(doc) : IdDePessoa(p) = Null

\* The search of the product and the search of the customer by documento
\* failed, the next strategies answered and the sale was created.
C24_CriadaDepoisDeDuasFalhas ==
    \E i \in 1..nvenda :
        /\ resultados[i].status = "criada"
        /\ \E k \in DOMAIN calls[i] :
              BuscaFalhou(i, k) /\ calls[i][k].path = "/v1/produto"
        /\ \E k \in DOMAIN calls[i] :
              BuscaFalhou(i, k) /\ calls[i][k].path = "/v1/pessoas"
        /\ VendaPostada(i).id_cliente = "cli-ana"


\* The errors raised by the local checks of _resolver_itens_e_payload.
ErrosDePayload ==
    { "Produto nao encontrado", "Servico nao encontrado",
      "Nenhum item informado para a venda", "Informe ao menos uma parcela",
      "Forma de pagamento invalida",
      "A venda contem multiplas formas de pagamento",
      "Valor de parcela deve ser > 0", "numero (inteiro) e obrigatorio" }

\* C26: an order whose turn ends with the error of a local check of the
\* payload has caused no remote write: no customer was created for it.
C26_SemEscritaAntesDasChecagens ==
    \A i \in 1..nvenda :
        ( /\ resultados[i].status = "erro"
          /\ resultados[i].mensagem.kind \in ErrosDePayload )
        => /\ ~CriouCliente(i)
           /\ ~PostouVenda(i)


\* The rows of the sheet whose pedido_id, blanks stripped, is pid, in their
\* order.
LinhasDaPlanilha(pid) ==
    LET col == ColunaDe("pedido_id") IN
    SelectSeq([i \in DOMAIN file.rows |-> i],
              LAMBDA i : Strip(PyStr(file.rows[i][col]).s) = pid)

\* C27: an aggregate has one item and one installment for each row of the
\* sheet that carries its pedido_id, wherever the row is in the sheet, in
\* the order of the rows.
C27_UmItemEUmaParcelaPorLinha ==
    \A i \in DOMAIN vendas :
        LET linhas == LinhasDaPlanilha(vendas[i].header.pedido_id) IN
        /\ Len(vendas[i].itens) = Len(linhas)
        /\ Len(vendas[i].payments) = Len(linhas)
        /\ \A k \in DOMAIN linhas :
              /\ vendas[i].itens[k] = Item(df[linhas[k]])
              /\ vendas[i].payments[k] = Parcela(df[linhas[k]])

\* An aggregate of two rows that have a row of another order between them.
C27_LinhasIntercaladas ==
    \E i \in DOMAIN vendas :
        /\ LinhasDaPlanilha(vendas[i].header.pedido_id) = <<1, 3>>
        /\ Len(vendas[i].itens) = 2
        /\ Len(vendas[i].payments) = 2


\* The requests api_get sent.
PedidosApi == {i \in DOMAIN enviados : enviados[i].url # "token"}

\* C25: every request of api_get carries the header 'Bearer ' followed by
\* exactly the access token of the pair _ensure_access_token returned, not
\* the company id and not the pair.
C25_BearerDoToken ==
    \A i \in PedidosApi : enviados[i].Authorization = "Bearer " \o enviados[i].token[2]

\* The access token returned after a refresh is the one the refresh issued.
C28_TokenDevolvido ==
    (saida.op = "api_get" /\ saida.renovou /\ saida.token.ok)
       => saida.token.val[2] = AccessTokenN(provedor.n)

\* Every refresh presents the refresh token the endpoint issued last.
C28_RotacaoMantida ==
    \A i \in DOMAIN enviados : enviados[i].url = "token" => enviados[i].aceito

C29_TrocaPersistida ==
    saida.op = "exchange_code_for_tokens" =>
       /\ saida.res.ok
       /\ tabela # None
       /\ tabela.company_id = Cid
       /\ tabela.access_token = AccessTokenN(provedor.n)
       /\ tabela.refresh_token = provedor.refresh
       /\ session_state.tokens = None =>
             LET g == GetTokens(Cid, session_state, tabela, relogio)
                 h == HasValidTokenDe(Cid, session_state, tabela, relogio)
             IN  /\ g.val # None
                 /\ g.val.access_token = tabela.access_token
                 /\ g.val.refresh_token = tabela.refresh_token
                 /\ h.val = (tabela.expires_at > relogio)

=============================================================================
